---------------------------- MODULE Spec2Model ----------------------------
(***************************************************************************)
(* A model of the ferrules PDF parsing pipeline:                           *)
(*   - the document orchestrator (parse_document / parse_doc_pages), its   *)
(*     page tasks, the native worker and the layout queue task, as a       *)
(*     state machine over the bounded channels that connect them           *)
(*     (specification Spec);                                               *)
(*   - the element-to-block merger merge_elements_into_blocks as an        *)
(*     operator, applied to bounded element sequences (specification       *)
(*     SpecMerge), and with the title levels of title_levels_kmeans to     *)
(*     bounded sequences of titles (specification SpecTitle);              *)
(*   - the page assembly parse_page_text and build_page_elements, applied  *)
(*     to bounded pages (specification SpecPage);                          *)
(*   - nms on bounded lists of raw layout boxes (specification SpecNms)    *)
(*     and BBox::iou on pairs of bounded boxes (specification SpecIou);    *)
(*   - the centroid-to-level mapping of title_levels_kmeans on bounded     *)
(*     centroid lists (specification SpecCentroid);                        *)
(*   - the layout queue and the native queue, each shared by two calls     *)
(*     (specifications SpecQueue and SpecNative);                          *)
(*   - build_page_elements on pages with headers, footers and far regions  *)
(*     (specification SpecElements);                                       *)
(*   - parse_text_lines on bounded span sequences (specification           *)
(*     SpecLines);                                                         *)
(*   - the SSE jobs of the API server: the job manager, the handler, its   *)
(*     parsing task and the cancel endpoint (specifications SpecJobs and   *)
(*     SpecJobsFair);                                                      *)
(*   - the pipeline under fair scheduling (specification SpecFair).        *)
(* Floats are modelled by integers and an f32 quotient by the pair of its  *)
(* operands, so that NaN and the infinities are visible; strings by        *)
(* sequences of tokens, so that concatenation with a separator is visible. *)
(***************************************************************************)
EXTENDS Integers, Sequences, FiniteSets, TLC

(***************************************************************************)
(* Bounds of the model.                                                    *)
(***************************************************************************)
\* number of pages of the modelled PDF document
NumPages == 2
\* capacity of the per-document native result channel (32 in the source)
NativeSinkCap == 2
\* intra-op thread count: layout channel capacity and semaphore permits
IntraThreads == 2
\* longest element sequence given to merge_elements_into_blocks in SpecMerge
MaxElems == 3
\* longest sequence of Title and Subtitle elements in SpecTitle
MaxTitles == 7

(***************************************************************************)
(* Program constants.                                                      *)
(***************************************************************************)
MAX_CONCURRENT_NATIVE_REQS == 10

(***************************************************************************)
(* Geometry (entities.rs, BBox).                                           *)
(***************************************************************************)
Min(a, b) == IF a <= b THEN a ELSE b
Max(a, b) == IF a >= b THEN a ELSE b

BBox(x0, y0, x1, y1) == [x0 |-> x0, y0 |-> y0, x1 |-> x1, y1 |-> y1]

\* BBox::merge: the union box
BBoxMerge(a, b) ==
    [x0 |-> Min(a.x0, b.x0), y0 |-> Min(a.y0, b.y0),
     x1 |-> Max(a.x1, b.x1), y1 |-> Max(a.y1, b.y1)]

\* BBox::contains (non-strict)
BBoxContains(a, b) ==
    b.x0 >= a.x0 /\ b.y0 >= a.y0 /\ b.x1 <= a.x1 /\ b.y1 <= a.y1

\* BBox::width, BBox::height is BBoxHeight below, BBox::area
BBoxWidth(b) == b.x1 - b.x0
BBoxArea(b) == (b.y1 - b.y0) * BBoxWidth(b)

\* BBox::overlap_x, BBox::overlap_y
overlap_x(a, b) == Max(0, Min(a.x1, b.x1) - Max(a.x0, b.x0))
overlap_y(a, b) == Max(0, Min(a.y1, b.y1) - Max(a.y0, b.y0))

\* BBox::intersection, BBox::union
intersection(a, b) == overlap_x(a, b) * overlap_y(a, b)
union(a, b) == BBoxArea(b) + BBoxArea(a) - intersection(a, b)

\* An f32 quotient n / d is the pair [num, den] of its operands; with
\* finite operands 0 / 0 is NaN and n / 0 (n # 0) is an infinity.
Quot(n, d) == [num |-> n, den |-> d]
IsNaN(q) == q.den = 0 /\ q.num = 0
\* the f32 comparisons q > n/d, q < n/d and q = n/d for d > 0: every
\* comparison with NaN is false
QuotGt(q, n, d) ==
    IF q.den = 0 THEN q.num > 0
    ELSE IF q.den > 0 THEN q.num * d > n * q.den
    ELSE q.num * d < n * q.den
QuotLt(q, n, d) ==
    IF q.den = 0 THEN q.num < 0
    ELSE IF q.den > 0 THEN q.num * d < n * q.den
    ELSE q.num * d > n * q.den
\* f32 equality of two quotients of non-negative operands
QuotEq(p, q) ==
    /\ ~IsNaN(p)
    /\ ~IsNaN(q)
    /\ IF p.den = 0 \/ q.den = 0 THEN p.den = 0 /\ q.den = 0
       ELSE p.num * q.den = q.num * p.den

\* BBox::relaxed_iou: intersection over the smaller area
relaxed_iou(a, b) == Quot(intersection(a, b), Min(BBoxArea(a), BBoxArea(b)))

\* BBox::iou: intersection over union
iou(a, b) == Quot(intersection(a, b), union(a, b))

\* BBox::distance, times 4: the centres are (x0 + x1) / 2, (y0 + y1) / 2
distance4_unweighted(a, b, x_weight, y_weight) ==
    ((a.x0 + a.x1) - (b.x0 + b.x1)) * ((a.x0 + a.x1) - (b.x0 + b.x1))
    + ((a.y0 + a.y1) - (b.y0 + b.y1)) * ((a.y0 + a.y1) - (b.y0 + b.y1))
distance4(a, b, x_weight, y_weight) ==
    ((a.x0 + a.x1) - (b.x0 + b.x1)) * ((a.x0 + a.x1) - (b.x0 + b.x1)) * x_weight
    + ((a.y0 + a.y1) - (b.y0 + b.y1)) * ((a.y0 + a.y1) - (b.y0 + b.y1)) * y_weight

(***************************************************************************)
(* Text.  A text is a sequence of tokens; " " is the space character.      *)
(***************************************************************************)
\* a faulty append_line that omits the separating space
append_line_nospace(text, txt) == text \o txt
\* ElementText::append_line: push(' ') then push_str(txt)
append_line(text, txt) == text \o <<" ">> \o txt

(***************************************************************************)
(* Elements and blocks.                                                    *)
(***************************************************************************)
ElementType ==
    {"Header", "FootNote", "Footer", "Text", "Title", "Subtitle",
     "ListItem", "Caption", "Image", "Table"}

\* Option<String>: <<>> is None, <<t>> is Some(t)
None == <<>>
Some(t) == <<t>>

\* A Block {id, kind, pages_id, bbox}; the payload of the kind is flattened
\* into text / items / caption / level.  els is a history field: the
\* positions (1-based) of the input elements consumed into this block.
MkBlock(id, kind, text, items, caption, pages_id, bbox, els) ==
    [id |-> id, kind |-> kind, text |-> text, items |-> items,
     caption |-> caption, level |-> 0, pages_id |-> pages_id,
     bbox |-> bbox, els |-> els]

\* Block::merge(&mut self, element): Ok for TextBlock+Text and
\* ListBlock+ListItem, Err (bail!) for another element kind, and todo!()
\* (a panic) for Header, Footer, Title, Image and Table blocks.
Block_merge(block, element) ==
    CASE block.kind = "TextBlock" ->
           IF element.kind = "Text"
           THEN [status |-> "ok",
                 block |-> [block EXCEPT !.bbox = BBoxMerge(@, element.bbox),
                                         !.text = @ \o <<"\n">> \o element.text]]
           ELSE [status |-> "err", block |-> block]
      [] block.kind = "ListBlock" ->
           IF element.kind = "ListItem"
           THEN [status |-> "ok",
                 block |-> [block EXCEPT !.bbox = BBoxMerge(@, element.bbox),
                                         !.items = Append(@, element.text)]]
           ELSE [status |-> "err", block |-> block]
      [] OTHER -> [status |-> "panic", block |-> block]


(***************************************************************************)
(* merge_elements_into_blocks (parse/merge.rs).  The peekable iterator is  *)
(* the pair (elements, k): k is the position peek() looks at.  Every arm   *)
(* returns [status, next, blocks, block_id]; status is "ok", "err" (an     *)
(* Err propagated by ?) or "panic".                                        *)
(***************************************************************************)
ArmResult(status, next, blocks, block_id) ==
    [status |-> status, next |-> next, blocks |-> blocks, block_id |-> block_id]

\* the loops `while let Some(next_el) = element_it.peek()` of the ListItem,
\* Header and Footer arms: consume the following elements of the same kind
\* and merge each into the block.
RECURSIVE MergeRun(_, _, _, _)
MergeRun(elements, block, k, kind) ==
    IF k <= Len(elements) /\ elements[k].kind = kind
    THEN LET m == Block_merge(block, elements[k])
         IN  IF m.status = "ok"
             THEN MergeRun(elements, [m.block EXCEPT !.els = Append(@, k)],
                           k + 1, kind)
             ELSE [status |-> m.status, block |-> block, next |-> k + 1]
    ELSE [status |-> "ok", block |-> block, next |-> k]

RunArm(elements, i, blocks, block_id, first) ==
    LET r == MergeRun(elements, first, i + 1, elements[i].kind)
    IN  IF r.status = "ok"
        THEN ArmResult("ok", r.next, Append(blocks, r.block), block_id + 1)
        ELSE ArmResult(r.status, r.next, blocks, block_id)

\* a faulty Text arm that merges the following Text elements into the block
TextArmCoalescing(elements, i, blocks, block_id) ==
    RunArm(elements, i, blocks, block_id,
           MkBlock(block_id, "TextBlock", elements[i].text, <<>>, None,
                   <<elements[i].page_id>>, elements[i].bbox, <<i>>))

\* ElementType::Text
TextArm(elements, i, blocks, block_id) ==
    LET curr_el == elements[i]
    IN  ArmResult("ok", i + 1,
            Append(blocks, MkBlock(block_id, "TextBlock", curr_el.text, <<>>,
                                   None, <<curr_el.page_id>>, curr_el.bbox, <<i>>)),
            block_id + 1)

\* a faulty ListItem arm that does not consume the following ListItems
ListItemArmNoMerge(elements, i, blocks, block_id) ==
    ArmResult("ok", i + 1,
        Append(blocks, MkBlock(block_id, "ListBlock", <<>>, <<elements[i].text>>,
                               None, <<elements[i].page_id>>, elements[i].bbox,
                               <<i>>)),
        block_id + 1)

\* ElementType::ListItem
ListItemArm(elements, i, blocks, block_id) ==
    LET curr_el == elements[i]
    IN  RunArm(elements, i, blocks, block_id,
               MkBlock(block_id, "ListBlock", <<>>, <<curr_el.text>>, None,
                       <<curr_el.page_id>>, curr_el.bbox, <<i>>))

\* a faulty `_` branch that also consumes the peeked element
CaptionOtherConsuming(curr_el, els, k, blocks, block_id) ==
    ArmResult("ok", k + 1,
        Append(blocks, MkBlock(block_id, "TextBlock", curr_el.text, <<>>, None,
                               <<curr_el.page_id>>, curr_el.bbox, els)),
        block_id + 1)
\* the `_` branch of the caption loop: the caption is emitted as a
\* TextBlock and the peeked element is left in the iterator
CaptionOther(curr_el, els, k, blocks, block_id) ==
    ArmResult("ok", k,
        Append(blocks, MkBlock(block_id, "TextBlock", curr_el.text, <<>>, None,
                               <<curr_el.page_id>>, curr_el.bbox, els)),
        block_id + 1)

\* the Image branch of the caption loop
CaptionImage(curr_el, next_el, els, k, blocks, block_id) ==
    ArmResult("ok", k + 1,
        Append(blocks, MkBlock(block_id, "Image", <<>>, <<>>, Some(curr_el.text),
                               <<next_el.page_id>>,
                               BBoxMerge(curr_el.bbox, next_el.bbox),
                               Append(els, k))),
        block_id + 1)

\* ElementType::FootNote | ElementType::Caption: the `loop { match peek() }`
RECURSIVE CaptionLoop(_, _, _, _, _, _)
CaptionLoop(elements, curr_el, els, k, blocks, block_id) ==
    IF k > Len(elements)
    THEN \* peek() = None: last element, becomes a TextBlock
         ArmResult("ok", k,
            Append(blocks, MkBlock(block_id, "TextBlock", curr_el.text, <<>>,
                                   None, <<curr_el.page_id>>, curr_el.bbox, els)),
            block_id + 1)
    ELSE LET next_el == elements[k]
         IN  CASE next_el.kind \in {"FootNote", "Caption"} ->
                    CaptionLoop(elements,
                        [curr_el EXCEPT !.text = append_line(@, next_el.text)],
                        Append(els, k), k + 1, blocks, block_id)
               [] next_el.kind = "Image" ->
                    CaptionImage(curr_el, next_el, els, k, blocks, block_id)
               [] OTHER -> CaptionOther(curr_el, els, k, blocks, block_id)

CaptionArm(elements, i, blocks, block_id) ==
    CaptionLoop(elements, elements[i], <<i>>, i + 1, blocks, block_id)

\* a faulty Image arm that never looks ahead
ImageArmNoLookahead(elements, i, blocks, block_id) ==
    ArmResult("ok", i + 1,
        Append(blocks, MkBlock(block_id, "Image", <<>>, <<>>, None,
                               <<elements[i].page_id>>, elements[i].bbox, <<i>>)),
        block_id + 1)

\* ElementType::Image: one element of lookahead
ImageArm(elements, i, blocks, block_id) ==
    LET curr_el == elements[i]
        k == i + 1
    IN  IF k <= Len(elements) /\ elements[k].kind \in {"FootNote", "Caption"}
        THEN ArmResult("ok", k + 1,
                Append(blocks, MkBlock(block_id, "Image", <<>>, <<>>,
                                       Some(elements[k].text), <<curr_el.page_id>>,
                                       BBoxMerge(curr_el.bbox, elements[k].bbox),
                                       <<i, k>>)),
                block_id + 1)
        ELSE ArmResult("ok", k,
                Append(blocks, MkBlock(block_id, "Image", <<>>, <<>>, None,
                                       <<curr_el.page_id>>, curr_el.bbox, <<i>>)),
                block_id + 1)

\* ElementType::Header and ElementType::Footer
HeaderFooterArm(elements, i, blocks, block_id) ==
    LET curr_el == elements[i]
    IN  RunArm(elements, i, blocks, block_id,
               MkBlock(block_id, curr_el.kind, curr_el.text, <<>>, None,
                       <<curr_el.page_id>>, curr_el.bbox, <<i>>))

\* a faulty Title arm that emits its block without advancing block_id
TitleArmSameId(elements, i, blocks, block_id) ==
    LET curr_el == elements[i]
    IN  ArmResult("ok", i + 1,
            Append(blocks, MkBlock(block_id, "Title", curr_el.text, <<>>, None,
                                   <<curr_el.page_id>>, curr_el.bbox, <<i>>)),
            block_id)

\* ElementType::Title | ElementType::Subtitle (level: 0)
TitleArm(elements, i, blocks, block_id) ==
    LET curr_el == elements[i]
    IN  ArmResult("ok", i + 1,
            Append(blocks, MkBlock(block_id, "Title", curr_el.text, <<>>, None,
                                   <<curr_el.page_id>>, curr_el.bbox, <<i>>)),
            block_id + 1)

\* one iteration of `while let Some(mut curr_el) = element_it.next()`
MergeArm(elements, i, blocks, block_id) ==
    LET kind == elements[i].kind
    IN  CASE kind = "Text" -> TextArm(elements, i, blocks, block_id)
          [] kind = "ListItem" -> ListItemArm(elements, i, blocks, block_id)
          [] kind \in {"FootNote", "Caption"} ->
                CaptionArm(elements, i, blocks, block_id)
          [] kind = "Image" -> ImageArm(elements, i, blocks, block_id)
          [] kind \in {"Header", "Footer"} ->
                HeaderFooterArm(elements, i, blocks, block_id)
          [] kind \in {"Title", "Subtitle"} ->
                TitleArm(elements, i, blocks, block_id)
          [] OTHER -> ArmResult("ok", i + 1, blocks, block_id)

RECURSIVE MergeLoop(_, _, _, _)
MergeLoop(elements, i, blocks, block_id) ==
    IF i > Len(elements)
    THEN [status |-> "ok", blocks |-> blocks]
    ELSE LET r == MergeArm(elements, i, blocks, block_id)
         IN  IF r.status = "ok"
             THEN MergeLoop(elements, r.next, r.blocks, r.block_id)
             ELSE [status |-> r.status, blocks |-> r.blocks]

merge_elements_into_blocks(elements) == MergeLoop(elements, 1, <<>>, 0)


(***************************************************************************)
(* Title levels: title_levels_kmeans (parse/titles.rs).  Heights are in    *)
(* tenths of a point; the threshold 0.7 is applied as 10 * c < 7 * prev.   *)
(* The clustering itself is the kmeans crate (kmeans++ initialisation is   *)
(* random): its centroids are an input drawn from CentroidChoices and each *)
(* sample is assigned to its nearest centroid.                             *)
(***************************************************************************)
\* the bucket count parse_document passes: title_levels_kmeans(&titles, 6)
TITLE_BUCKETS == 6

Abs(x) == IF x < 0 THEN -x ELSE x

\* BBox::height
BBoxHeight(b) == b.y1 - b.y0

\* all_elements.iter().filter(|e| matches!(e.kind, Title | Subtitle))
RECURSIVE FilterTitles(_)
FilterTitles(elements) ==
    IF elements = <<>> THEN <<>>
    ELSE IF Head(elements).kind \in {"Title", "Subtitle"}
         THEN <<Head(elements)>> \o FilterTitles(Tail(elements))
         ELSE FilterTitles(Tail(elements))

\* the centroids kmeans_lloyd may return for title_buckets = 6
CentroidChoices ==
    { <<20, 20, 20, 10, 10, 10>>, <<10, 20, 15, 10, 20, 15>>,
      <<20, 15, 10, 8, 5, 3>> }

\* result.assignments: the index of the centroid nearest to the sample
\* (the first one among equally near centroids)
NearestCentroid(sample, centroids) ==
    CHOOSE c \in 1..Len(centroids) :
        /\ \A d \in 1..Len(centroids) :
              Abs(sample - centroids[c]) <= Abs(sample - centroids[d])
        /\ \A d \in 1..(c - 1) :
              Abs(sample - centroids[c]) < Abs(sample - centroids[d])

\* .sorted_by(|(_, c1), (_, c2)| c2.total_cmp(c1)): stable, descending by
\* value; the elements are pairs <<c_idx, c_val>>
RECURSIVE InsertDesc(_, _)
InsertDesc(sorted, pair) ==
    IF sorted = <<>> THEN <<pair>>
    ELSE IF Head(sorted)[2] >= pair[2]
         THEN <<Head(sorted)>> \o InsertDesc(Tail(sorted), pair)
         ELSE <<pair>> \o sorted

RECURSIVE SortCentroidsFrom(_, _, _)
SortCentroidsFrom(centroids, c, sorted) ==
    IF c > Len(centroids) THEN sorted
    ELSE SortCentroidsFrom(centroids, c + 1,
                           InsertDesc(sorted, <<c, centroids[c]>>))

CentroidsSorted(centroids) == SortCentroidsFrom(centroids, 1, <<>>)

\* a faulty step that also raises the level at exactly 0.7 times the
\* previous value
LevelAfterInclusive(prev, c_val) ==
    IF 10 * c_val <= 7 * prev[2] THEN prev[1] + 1 ELSE prev[1]
\* the level of a centroid after prev_centroid = (level, value):
\* if *c_val < prev_centroid.1 * TITLE_MERGE_THRESHOLD the level goes up
LevelAfter(prev, c_val) ==
    IF 10 * c_val < 7 * prev[2] THEN prev[1] + 1 ELSE prev[1]

\* the loop over centroids_sorted that fills centroid_mapping: prev is
\* prev_centroid = (level, value); mapping starts as vec![-1; len]
RECURSIVE CentroidMappingLoop(_, _, _, _)
CentroidMappingLoop(sorted, n, prev, mapping) ==
    IF n > Len(sorted) THEN mapping
    ELSE LET c_idx == sorted[n][1]
             c_val == sorted[n][2]
             level == LevelAfter(prev, c_val)
         IN  CentroidMappingLoop(sorted, n + 1, <<level, c_val>>,
                                 [mapping EXCEPT ![c_idx] = level])

CentroidMapping(centroids) ==
    LET sorted == CentroidsSorted(centroids)
    IN  CentroidMappingLoop(sorted, 1, <<1, sorted[1][2]>>,
                            [c \in 1..Len(centroids) |-> -1])

\* the HashMap a sequence of insertions builds: a later insertion of a key
\* replaces the earlier one
RECURSIVE InsertLevels(_, _, _, _)
InsertLevels(titles, n, levels, map) ==
    IF n > Len(titles) THEN map
    ELSE LET key == <<titles[n].page_id, titles[n].id>>
         IN  InsertLevels(titles, n + 1, levels,
                [k \in DOMAIN map \cup {key} |->
                    IF k = key THEN levels[n] ELSE map[k]])

\* an empty HashMap
EmptyMap == [k \in {} |-> 0]

\* a faulty title_levels_kmeans that clusters as soon as there are
\* title_buckets titles
title_levels_kmeans_eager(titles, title_buckets, centroids) ==
    IF Len(titles) < title_buckets THEN EmptyMap
    ELSE LET mapping == CentroidMapping(centroids)
             levels == [n \in 1..Len(titles) |->
                          mapping[NearestCentroid(BBoxHeight(titles[n].bbox),
                                                  centroids)]]
         IN  InsertLevels(titles, 1, levels, EmptyMap)

\* title_levels_kmeans(titles, title_buckets), for the given kmeans result
title_levels_kmeans(titles, title_buckets, centroids) ==
    IF Len(titles) <= title_buckets THEN EmptyMap
    ELSE LET mapping == CentroidMapping(centroids)
             levels == [n \in 1..Len(titles) |->
                          mapping[NearestCentroid(BBoxHeight(titles[n].bbox),
                                                  centroids)]]
         IN  InsertLevels(titles, 1, levels, EmptyMap)

(***************************************************************************)
(* State of the merger specification SpecMerge: an input element sequence  *)
(* and the result of merge_elements_into_blocks on it.                     *)
(***************************************************************************)
VARIABLES m_elements, m_pc, m_result, m_title_level

mvars == <<m_elements, m_pc, m_result, m_title_level>>

\* the boxes of the merger's unit tests, in tenths of a point:
\* (0, 0, 2, 2) and the box (0, 2.1, 2, 4.1) placed 0.1 under it
BoxChoices == {BBox(0, 0, 20, 20), BBox(0, 21, 20, 41)}

\* Element {id, page_id, kind, text_block.text, bbox}: the element at
\* position i carries the id i-1, the one-token text <<i>> and a page id
\* that does not decrease along the sequence (two elements per page).
MkElement(i, kind, bbox) ==
    [id |-> i - 1, page_id |-> (i - 1) \div 2, kind |-> kind,
     text |-> <<ToString(i)>>, bbox |-> bbox]

NoResult == [status |-> "none", blocks |-> <<>>]

\* every sequence of at most MaxElems elements, of every kind and box
MergeInit ==
    /\ \E n \in 0..MaxElems :
         \E f \in [1..n -> ElementType \X BoxChoices] :
            m_elements = [i \in 1..n |-> MkElement(i, f[i][1], f[i][2])]
    /\ m_pc = "start"
    /\ m_result = NoResult
    /\ m_title_level = EmptyMap

\* the boxes of Title and Subtitle elements: heights 2.0 and 1.0
TitleBoxChoices == {BBox(0, 0, 20, 20), BBox(0, 21, 20, 31)}

\* every sequence of at most MaxTitles Title and Subtitle elements
TitleInit ==
    /\ \E n \in 0..MaxTitles :
         \E f \in [1..n -> {"Title", "Subtitle"} \X TitleBoxChoices] :
            m_elements = [i \in 1..n |-> MkElement(i, f[i][1], f[i][2])]
    /\ m_pc = "start"
    /\ m_result = NoResult
    /\ m_title_level = EmptyMap

MergeIdle ==
    /\ m_elements = <<>>
    /\ m_pc = "idle"
    /\ m_result = NoResult
    /\ m_title_level = EmptyMap

\* parse_document from the element list on: the title-level map is
\* computed and merge_elements_into_blocks(elements) is called
MergeElements ==
    /\ m_pc = "start"
    /\ \E centroids \in CentroidChoices :
          m_title_level' = title_levels_kmeans(FilterTitles(m_elements),
                                               TITLE_BUCKETS, centroids)
    /\ m_result' = merge_elements_into_blocks(m_elements)
    /\ m_pc' = "done"
    /\ UNCHANGED m_elements


(***************************************************************************)
(* Page assembly: parse_page_text and build_page_elements (parse/page.rs)  *)
(* with merge_lines_layout and merge_remaining (parse/merge.rs).           *)
(* Coordinates are whole points.  A line is [text, bbox, spans]; a layout  *)
(* region is a LayoutBBox [id, bbox, label, proba].                        *)
(***************************************************************************)
MaxRegions == 2
MaxLines == 2

\* the two thresholds 0.5 are in tenths
MIN_INTERSECTION_LAYOUT == 5
LAYOUT_DISTANCE_X_WEIGHT == 5
LAYOUT_DISTANCE_Y_WEIGHT == 1
MAXIMUM_ASSIGNMENT_DISTANCE == 20
MIN_LAYOUT_COVERAGE_THRESHOLD == 5

Line(text, bbox, spans) == [text |-> text, bbox |-> bbox, spans |-> spans]

\* LayoutBBox::is_text_block
is_text_block(b) ==
    b.label \in {"Text", "Caption", "Footnote", "Formula", "List-item",
                 "Page-footer", "Page-header", "Section-header", "Title"}

\* the ElementType of a label in Element::from_layout_block
KindOfLabel(label) ==
    CASE label = "Caption" -> "Caption"
      [] label \in {"Formula", "Text"} -> "Text"
      [] label = "List-item" -> "ListItem"
      [] label = "Footnote" -> "FootNote"
      [] label = "Page-footer" -> "Footer"
      [] label = "Page-header" -> "Header"
      [] label = "Title" -> "Title"
      [] label = "Section-header" -> "Subtitle"
      [] label = "Table" -> "Table"
      [] label = "Picture" -> "Image"

\* Element::from_layout_block
from_layout_block(id, layout_block, page_id) ==
    [id |-> id, kind |-> KindOfLabel(layout_block.label),
     layout_block_id |-> layout_block.id, page_id |-> page_id,
     text |-> <<>>, bbox |-> layout_block.bbox]

\* Element::push_line
push_line(el, line) ==
    [el EXCEPT !.text = IF el.text = <<>> THEN line.text
                        ELSE append_line(el.text, line.text)]

RECURSIVE SeqSum(_)
SeqSum(s) == IF s = <<>> THEN 0 ELSE Head(s) + SeqSum(Tail(s))

RECURSIVE SelectTextBlocks(_)
SelectTextBlocks(layout) ==
    IF layout = <<>> THEN <<>>
    ELSE IF is_text_block(Head(layout))
         THEN <<Head(layout)>> \o SelectTextBlocks(Tail(layout))
         ELSE SelectTextBlocks(Tail(layout))

\* a faulty page_needs_ocr whose threshold is inclusive
page_needs_ocr_inclusive(text_boxes, text_lines) ==
    LET line_area == SeqSum([i \in 1..Len(text_lines) |-> BBoxArea(text_lines[i].bbox)])
        text_layoutbbox_area ==
            SeqSum([i \in 1..Len(text_boxes) |-> BBoxArea(text_boxes[i].bbox)])
    IN  IF text_layoutbbox_area > 0
        THEN ~QuotGt(Quot(line_area, text_layoutbbox_area),
                     MIN_LAYOUT_COVERAGE_THRESHOLD, 10)
        ELSE TRUE
\* page_needs_ocr
page_needs_ocr(text_boxes, text_lines) ==
    LET line_area == SeqSum([i \in 1..Len(text_lines) |-> BBoxArea(text_lines[i].bbox)])
        text_layoutbbox_area ==
            SeqSum([i \in 1..Len(text_boxes) |-> BBoxArea(text_boxes[i].bbox)])
    IN  IF text_layoutbbox_area > 0
        THEN QuotLt(Quot(line_area, text_layoutbbox_area),
                    MIN_LAYOUT_COVERAGE_THRESHOLD, 10)
        ELSE TRUE

\* OCRLines::to_line
to_line(ocr_line) == Line(ocr_line.text, ocr_line.bbox, <<>>)

\* a parse_page_text that drops the native lines when OCR is needed
parse_page_text_ocr_only(native_text_lines, page_layout, ocr) ==
    LET need_ocr == page_needs_ocr(SelectTextBlocks(page_layout), native_text_lines)
    IN  [lines |-> IF need_ocr
                   THEN [i \in 1..Len(ocr.lines) |-> to_line(ocr.lines[i])]
                   ELSE native_text_lines,
         need_ocr |-> need_ocr]
\* parse_page_text: ocr is the outcome of parse_image_ocr,
\* [ok |-> FALSE] or [ok |-> TRUE, lines |-> the OCR lines]
parse_page_text(native_text_lines, page_layout, ocr) ==
    LET need_ocr == page_needs_ocr(SelectTextBlocks(page_layout), native_text_lines)
    IN  [lines |-> IF need_ocr /\ ocr.ok
                   THEN [i \in 1..Len(ocr.lines) |-> to_line(ocr.lines[i])]
                   ELSE native_text_lines,
         need_ocr |-> need_ocr]

\* Iterator::max_by returns the last of several maximal items
RECURSIVE MaxIntersectionFrom(_, _, _, _)
MaxIntersectionFrom(layout_boxes, line, i, best) ==
    IF i > Len(layout_boxes) THEN best
    ELSE IF intersection(layout_boxes[i].bbox, line.bbox)
               >= intersection(layout_boxes[best].bbox, line.bbox)
         THEN MaxIntersectionFrom(layout_boxes, line, i + 1, i)
         ELSE MaxIntersectionFrom(layout_boxes, line, i + 1, best)

\* Iterator::min_by returns the first of several minimal items
RECURSIVE MinDistanceFrom(_, _, _, _)
MinDistanceFrom(boxes, target, i, best) ==
    IF i > Len(boxes) THEN best
    ELSE IF distance4(boxes[i].bbox, target, LAYOUT_DISTANCE_X_WEIGHT,
                      LAYOUT_DISTANCE_Y_WEIGHT)
               < distance4(boxes[best].bbox, target, LAYOUT_DISTANCE_X_WEIGHT,
                           LAYOUT_DISTANCE_Y_WEIGHT)
         THEN MinDistanceFrom(boxes, target, i + 1, i)
         ELSE MinDistanceFrom(boxes, target, i + 1, best)

\* a faulty selection that takes the first region of the list
matched_block_first(layout_boxes, line) ==
    IF layout_boxes = <<>> THEN 0 ELSE 1
\* the region matched with a line in merge_lines_layout: its position in
\* layout_boxes, 0 for None
matched_block(layout_boxes, line) ==
    IF layout_boxes = <<>> THEN 0
    ELSE
    LET max_i == MaxIntersectionFrom(layout_boxes, line, 2, 1)
        min_i == MinDistanceFrom(layout_boxes, line.bbox, 2, 1)
        max_ok == QuotGt(Quot(intersection(line.bbox, layout_boxes[max_i].bbox),
                              BBoxArea(line.bbox)),
                         MIN_INTERSECTION_LAYOUT, 10)
    IN  IF max_ok THEN max_i
        ELSE IF distance4(layout_boxes[min_i].bbox, line.bbox,
                          LAYOUT_DISTANCE_X_WEIGHT, LAYOUT_DISTANCE_Y_WEIGHT)
                   < 4 * MAXIMUM_ASSIGNMENT_DISTANCE
             THEN min_i
             ELSE 0

\* the position of the first element made from the region, 0 for None
FindElement(elements, layout_block_id) ==
    IF \E i \in 1..Len(elements) : elements[i].layout_block_id = layout_block_id
    THEN CHOOSE i \in 1..Len(elements) :
            /\ elements[i].layout_block_id = layout_block_id
            /\ \A j \in 1..(i - 1) : elements[j].layout_block_id # layout_block_id
    ELSE 0

\* merge_or_create_elements: into an empty list the first element is made
\* with the line pushed, and the search that follows finds that element
merge_or_create_elements(elements, line, line_layout_block, page_id) ==
    LET els == IF elements = <<>>
               THEN <<push_line(from_layout_block(0, line_layout_block, page_id), line)>>
               ELSE elements
        m == FindElement(els, line_layout_block.id)
    IN  IF m # 0 THEN [els EXCEPT ![m] = push_line(els[m], line)]
        ELSE Append(els, push_line(from_layout_block(Len(els) + 1, line_layout_block,
                                                     page_id), line))

\* the loop of merge_lines_layout over the lines, from line i on
RECURSIVE MergeLinesLoop(_, _, _, _, _, _, _)
MergeLinesLoop(layout_boxes, lines, page_id, i, headers, elements, footers) ==
    IF i > Len(lines) THEN headers \o (elements \o footers)
    ELSE
    LET line == lines[i]
        b == matched_block(layout_boxes, line)
    IN  IF b = 0
        THEN MergeLinesLoop(layout_boxes, lines, page_id, i + 1, headers, elements, footers)
        ELSE IF layout_boxes[b].label = "Page-header"
        THEN MergeLinesLoop(layout_boxes, lines, page_id, i + 1,
                 merge_or_create_elements(headers, line, layout_boxes[b], page_id),
                 elements, footers)
        ELSE IF layout_boxes[b].label = "Page-footer"
        THEN MergeLinesLoop(layout_boxes, lines, page_id, i + 1, headers, elements,
                 merge_or_create_elements(footers, line, layout_boxes[b], page_id))
        ELSE MergeLinesLoop(layout_boxes, lines, page_id, i + 1, headers,
                 merge_or_create_elements(elements, line, layout_boxes[b], page_id),
                 footers)

merge_lines_layout(layout_boxes, lines, page_id) ==
    MergeLinesLoop(layout_boxes, lines, page_id, 1, <<>>, <<>>, <<>>)

\* a faulty insertion that always appends
InsertAtEnd(s, index, e) == Append(s, e)
\* Vec::insert at the 0-based index
InsertAt(s, index, e) ==
    SubSeq(s, 1, index) \o <<e>> \o SubSeq(s, index + 1, Len(s))

\* merge_remaining, from the remaining region i on
RECURSIVE merge_remaining_from(_, _, _, _)
merge_remaining_from(elements, remaining, page_id, i) ==
    IF i > Len(remaining) THEN elements
    ELSE
    LET closest_block ==
            IF elements = <<>> THEN Len(elements)
            ELSE MinDistanceFrom(elements, remaining[i].bbox, 2, 1) - 1
    IN  merge_remaining_from(
            InsertAt(elements, closest_block,
                     from_layout_block(Len(elements), remaining[i], page_id)),
            remaining, page_id, i + 1)

merge_remaining(elements, remaining, page_id) ==
    merge_remaining_from(elements, remaining, page_id, 1)

RECURSIVE UnmergedBoxes(_, _)
UnmergedBoxes(page_layout, merged_ids) ==
    IF page_layout = <<>> THEN <<>>
    ELSE IF Head(page_layout).id \in merged_ids
         THEN UnmergedBoxes(Tail(page_layout), merged_ids)
         ELSE <<Head(page_layout)>> \o UnmergedBoxes(Tail(page_layout), merged_ids)

\* build_page_elements
build_page_elements(page_layout, text_lines, page_idx) ==
    LET elements == merge_lines_layout(page_layout, text_lines, page_idx)
        merged_layout_blocks_ids ==
            {elements[i].layout_block_id : i \in 1..Len(elements)}
    IN  merge_remaining(elements, UnmergedBoxes(page_layout, merged_layout_blocks_ids),
                        page_idx)

VARIABLES p_pc, p_native_lines, p_layout, p_perm, p_ocr, p_lines, p_need_ocr,
          p_elements, p_elements_perm

pgvars == <<p_pc, p_native_lines, p_layout, p_perm, p_ocr, p_lines, p_need_ocr,
            p_elements, p_elements_perm>>

\* region boxes: A, the box B that contains A, and C under A
RegionBoxChoices == {BBox(0, 0, 10, 4), BBox(0, 0, 10, 8), BBox(0, 8, 10, 12)}
RegionLabelChoices == {"Text", "Page-header", "Picture"}
\* line boxes: one inside A and B; one half-way between A and C, inside B
LineBoxChoices == {BBox(0, 0, 10, 2), BBox(0, 5, 10, 7)}
\* the outcomes of parse_image_ocr: an error, no line, one line
NoOcr == [ok |-> FALSE, lines |-> <<>>]
OcrChoices ==
    {[ok |-> FALSE, lines |-> <<>>],
     [ok |-> TRUE, lines |-> <<>>],
     [ok |-> TRUE, lines |-> <<[text |-> <<"ocr">>, confidence |-> 1,
                                bbox |-> BBox(0, 5, 10, 7)]>>]}

\* a page with at most MaxRegions regions (their ids are distinct) and at
\* most MaxLines native lines, and a second order of the same regions
PageInit ==
    /\ \E n \in 0..MaxRegions :
         /\ \E f \in [1..n -> RegionBoxChoices \X RegionLabelChoices] :
              p_layout = [i \in 1..n |-> [id |-> i - 1, bbox |-> f[i][1],
                                          label |-> f[i][2], proba |-> 1]]
         /\ p_perm \in Permutations(1..n)
    /\ \E m \in 0..MaxLines :
         \E g \in [1..m -> LineBoxChoices] :
            p_native_lines = [i \in 1..m |-> Line(<<ToString(i)>>, g[i], <<"span">>)]
    /\ p_pc = "text"
    /\ p_ocr = NoOcr
    /\ p_lines = <<>>
    /\ p_need_ocr = FALSE
    /\ p_elements = <<>>
    /\ p_elements_perm = <<>>

\* a page whose regions may also be a footer, in one order only; the
\* region boxes are A, C under A, and the small box D beside the second
\* line (its centre is 2 to the right of the line's)
ElementRegionBoxChoices == {BBox(0, 0, 10, 4), BBox(0, 8, 10, 12), BBox(6, 5, 8, 7)}
ElementRegionLabelChoices == RegionLabelChoices \cup {"Page-footer"}

ElementsInit ==
    /\ \E n \in 0..MaxRegions :
         /\ \E f \in [1..n -> ElementRegionBoxChoices \X ElementRegionLabelChoices] :
              p_layout = [i \in 1..n |-> [id |-> i - 1, bbox |-> f[i][1],
                                          label |-> f[i][2], proba |-> 1]]
         /\ p_perm = [i \in 1..n |-> i]
    /\ \E m \in 0..MaxLines :
         \E g \in [1..m -> LineBoxChoices] :
            p_native_lines = [i \in 1..m |-> Line(<<ToString(i)>>, g[i], <<"span">>)]
    /\ p_pc = "text"
    /\ p_ocr = NoOcr
    /\ p_lines = <<>>
    /\ p_need_ocr = FALSE
    /\ p_elements = <<>>
    /\ p_elements_perm = <<>>

PageIdle ==
    /\ p_pc = "idle"
    /\ p_native_lines = <<>>
    /\ p_layout = <<>>
    /\ p_perm = <<>>
    /\ p_ocr = NoOcr
    /\ p_lines = <<>>
    /\ p_need_ocr = FALSE
    /\ p_elements = <<>>
    /\ p_elements_perm = <<>>

\* parse_page: parse_page_text on the native lines and the layout;
\* parse_image_ocr is called, with any outcome, only when OCR is needed
ParsePageText ==
    /\ p_pc = "text"
    /\ \E ocr \in OcrChoices :
         LET r == parse_page_text(p_native_lines, p_layout, ocr)
         IN  /\ p_lines' = r.lines
             /\ p_need_ocr' = r.need_ocr
             /\ p_ocr' = IF r.need_ocr THEN ocr ELSE NoOcr
    /\ p_pc' = "elements"
    /\ UNCHANGED <<p_native_lines, p_layout, p_perm, p_elements, p_elements_perm>>

\* parse_page: build_page_elements, on the layout and on its second order
BuildPageElements ==
    /\ p_pc = "elements"
    /\ p_elements' = build_page_elements(p_layout, p_lines, 0)
    /\ p_elements_perm' =
          build_page_elements([i \in 1..Len(p_layout) |-> p_layout[p_perm[i]]],
                              p_lines, 0)
    /\ p_pc' = "done"
    /\ UNCHANGED <<p_native_lines, p_layout, p_perm, p_ocr, p_lines, p_need_ocr>>

(***************************************************************************)
(* Non-maximum suppression: nms (layout/model.rs).  Probabilities are in   *)
(* hundredths and thresholds in tenths.                                    *)
(***************************************************************************)
MaxBoxes == 3

\* ORTLayoutParser::IOU_THRESHOLD, 0.8
IOU_THRESHOLD == 8

\* the stable sort_by of nms: descending probability, equal probabilities
\* in their input order
RECURSIVE InsertByProba(_, _)
InsertByProba(sorted, box) ==
    IF sorted = <<>> THEN <<box>>
    ELSE IF Head(sorted).proba >= box.proba
         THEN <<Head(sorted)>> \o InsertByProba(Tail(sorted), box)
         ELSE <<box>> \o sorted

RECURSIVE SortByProbaFrom(_, _, _)
SortByProbaFrom(boxes, i, sorted) ==
    IF i > Len(boxes) THEN sorted
    ELSE SortByProbaFrom(boxes, i + 1, InsertByProba(sorted, boxes[i]))

SortByProba(boxes) == SortByProbaFrom(boxes, 1, <<>>)

\* a faulty test that lets boxes of different labels overlap
OverlapsSameLabel(prev, box, iou_threshold) ==
    /\ prev.label = box.label
    /\ QuotGt(relaxed_iou(prev.bbox, box.bbox), iou_threshold, 10)
\* the test of the inner loop: iou > iou_threshold, whatever the labels
Overlaps(prev, box, iou_threshold) ==
    QuotGt(relaxed_iou(prev.bbox, box.bbox), iou_threshold, 10)

\* Vec::swap of the 1-based positions i and j
Swap(s, i, j) == [s EXCEPT ![i] = s[j], ![j] = s[i]]

\* the sweep of nms: index is the box looked at, current_index the number
\* of boxes kept, which are at the front
RECURSIVE NmsLoop(_, _, _, _)
NmsLoop(raw_bboxes, index, current_index, iou_threshold) ==
    IF index > Len(raw_bboxes) THEN SubSeq(raw_bboxes, 1, current_index)
    ELSE IF \E prev_index \in 1..current_index :
               Overlaps(raw_bboxes[prev_index], raw_bboxes[index], iou_threshold)
         THEN NmsLoop(raw_bboxes, index + 1, current_index, iou_threshold)
         ELSE NmsLoop(Swap(raw_bboxes, current_index + 1, index), index + 1,
                      current_index + 1, iou_threshold)

nms(raw_bboxes, iou_threshold) ==
    NmsLoop(SortByProba(raw_bboxes), 1, 0, iou_threshold)

VARIABLES n_pc, n_boxes, n_threshold, n_out

nvars == <<n_pc, n_boxes, n_threshold, n_out>>

\* a box, a box inside it, a box over two thirds of it, a box apart from
\* the three, and a box of width zero
NmsBoxChoices ==
    {BBox(0, 0, 3, 3), BBox(1, 1, 2, 2), BBox(1, 0, 4, 3), BBox(3, 3, 4, 4),
     BBox(0, 0, 0, 3)}
NmsLabelChoices == {"Text", "Table"}
NmsProbaChoices == {85, 95}
\* the threshold of the unit tests and the one of the layout parser
ThresholdChoices == {5, IOU_THRESHOLD}

\* at most MaxBoxes raw boxes, as extract_bboxes numbers them
NmsInit ==
    /\ \E n \in 0..MaxBoxes :
         \E f \in [1..n -> NmsBoxChoices \X NmsLabelChoices \X NmsProbaChoices] :
            n_boxes = [i \in 1..n |-> [id |-> i - 1, bbox |-> f[i][1],
                                       label |-> f[i][2], proba |-> f[i][3]]]
    /\ n_pc = "start"
    /\ n_threshold = 0
    /\ n_out = <<>>

NmsIdle ==
    /\ n_pc = "idle"
    /\ n_boxes = <<>>
    /\ n_threshold = 0
    /\ n_out = <<>>

\* parse_layout: nms on the extracted boxes
RunNms ==
    /\ n_pc = "start"
    /\ \E t \in ThresholdChoices :
         /\ n_threshold' = t
         /\ n_out' = nms(n_boxes, t)
    /\ n_pc' = "done"
    /\ UNCHANGED n_boxes

(***************************************************************************)
(* BBox::iou applied to two boxes (entities.rs).                           *)
(***************************************************************************)
MaxCoord == 3

VARIABLES i_pc, i_a, i_b, i_ab, i_ba, i_aa

ivars == <<i_pc, i_a, i_b, i_ab, i_ba, i_aa>>

\* the inputs are the boxes with x0 <= x1 and y0 <= y1 over 0..MaxCoord
IouInit ==
    /\ i_a \in {b \in [x0 : 0..MaxCoord, y0 : 0..MaxCoord,
                       x1 : 0..MaxCoord, y1 : 0..MaxCoord] :
                   b.x0 <= b.x1 /\ b.y0 <= b.y1}
    /\ i_b \in {b \in [x0 : 0..MaxCoord, y0 : 0..MaxCoord,
                       x1 : 0..MaxCoord, y1 : 0..MaxCoord] :
                   b.x0 <= b.x1 /\ b.y0 <= b.y1}
    /\ i_pc = "start"
    /\ i_ab = Quot(0, 1)
    /\ i_ba = Quot(0, 1)
    /\ i_aa = Quot(0, 1)

IouIdle ==
    /\ i_pc = "idle"
    /\ i_a = BBox(0, 0, 0, 0)
    /\ i_b = BBox(0, 0, 0, 0)
    /\ i_ab = Quot(0, 1)
    /\ i_ba = Quot(0, 1)
    /\ i_aa = Quot(0, 1)

\* a.iou(&b), b.iou(&a) and a.iou(&a)
ComputeIou ==
    /\ i_pc = "start"
    /\ i_ab' = iou(i_a, i_b)
    /\ i_ba' = iou(i_b, i_a)
    /\ i_aa' = iou(i_a, i_a)
    /\ i_pc' = "done"
    /\ UNCHANGED <<i_a, i_b>>

(***************************************************************************)
(* The centroid-to-level mapping of title_levels_kmeans applied to the     *)
(* centroids of a clustering (parse/titles.rs).                            *)
(***************************************************************************)
MaxCentroids == 3

VARIABLES k_pc, k_centroids, k_mapping

kvars == <<k_pc, k_centroids, k_mapping>>

\* centroid heights: 24, 18 and 8, and 20 with 14 = 0.7 * 20
CentroidHeights == {8, 14, 18, 20, 24}

\* the centroids of a clustering, in the order of their cluster index
CentroidInit ==
    /\ \E k \in 1..MaxCentroids : k_centroids \in [1..k -> CentroidHeights]
    /\ k_pc = "start"
    /\ k_mapping = <<>>

CentroidIdle ==
    /\ k_pc = "idle"
    /\ k_centroids = <<>>
    /\ k_mapping = <<>>

\* title_levels_kmeans from the kmeans result to centroid_mapping
MapCentroids ==
    /\ k_pc = "start"
    /\ k_mapping' = CentroidMapping(k_centroids)
    /\ k_pc' = "done"
    /\ UNCHANGED k_centroids

(***************************************************************************)
(* Text lines: parse_text_lines (parse/native.rs) with Line::new_from_span *)
(* and Line::append (entities.rs).  A span is [text, bbox, rotation]; its  *)
(* text is a sequence of characters.  A line is [bbox, rotation, spans].   *)
(***************************************************************************)
MaxSpans == 3

VARIABLES l_pc, l_spans, l_lines

lvars == <<l_pc, l_spans, l_lines>>

\* the characters "\n" and "\x02"
LF == "LF"
STX == "STX"

\* text.ends_with(c)
EndsWith(text, c) == text # <<>> /\ text[Len(text)] = c

\* span texts: a letter, a letter and a line break, and a lone STX
SpanTextChoices == {<<"a">>, <<"a", LF>>, <<STX>>}

\* span boxes: a box, a box below it, and a zero-width and a zero-height
\* box outside both
SpanBoxChoices ==
    {BBox(0, 0, 4, 2), BBox(0, 3, 4, 5), BBox(6, 0, 6, 2), BBox(0, 6, 4, 6)}

SpanRotations == {0, 90}

CharSpan(text, bbox, rotation) ==
    [text |-> text, bbox |-> bbox, rotation |-> rotation]

\* Line::new_from_span
Line_new_from_span(span) ==
    [bbox |-> span.bbox, rotation |-> span.rotation, spans |-> <<span>>]

\* a faulty Line::append that always merges the span's box into the line's
Line_append_union(line, span) ==
    IF \/ span.rotation # line.rotation
       \/ span.bbox.y0 > line.bbox.y1
       \/ EndsWith(span.text, LF) \/ EndsWith(span.text, STX)
    THEN [ok |-> FALSE, line |-> line]
    ELSE [ok |-> TRUE,
          line |-> [line EXCEPT !.bbox = BBoxMerge(line.bbox, span.bbox),
                                !.spans = Append(@, span)]]

\* Line::append: Err(span) leaves the line's box and spans as they are
Line_append(line, span) ==
    IF \/ span.rotation # line.rotation
       \/ span.bbox.y0 > line.bbox.y1
       \/ EndsWith(span.text, LF) \/ EndsWith(span.text, STX)
    THEN [ok |-> FALSE, line |-> line]
    ELSE [ok |-> TRUE,
          line |-> [line EXCEPT
                      !.bbox = IF BBoxHeight(line.bbox) = 0
                                  \/ BBoxWidth(line.bbox) = 0
                               THEN span.bbox
                               ELSE BBoxMerge(line.bbox, span.bbox),
                      !.spans = Append(@, span)]]

\* the loop `for span in spans` of parse_text_lines
RECURSIVE ParseTextLinesLoop(_, _, _)
ParseTextLinesLoop(spans, n, lines) ==
    IF n > Len(spans) THEN lines
    ELSE IF lines = <<>>
         THEN ParseTextLinesLoop(spans, n + 1, <<Line_new_from_span(spans[n])>>)
         ELSE LET r == Line_append(lines[Len(lines)], spans[n])
              IN  IF r.ok
                  THEN ParseTextLinesLoop(spans, n + 1,
                          [lines EXCEPT ![Len(lines)] = r.line])
                  ELSE ParseTextLinesLoop(spans, n + 1,
                          Append(lines, Line_new_from_span(spans[n])))

parse_text_lines(spans) == ParseTextLinesLoop(spans, 1, <<>>)

\* every sequence of at most MaxSpans spans
LinesInit ==
    /\ \E n \in 0..MaxSpans :
         \E f \in [1..n -> SpanTextChoices \X SpanBoxChoices \X SpanRotations] :
            l_spans = [i \in 1..n |-> CharSpan(f[i][1], f[i][2], f[i][3])]
    /\ l_pc = "start"
    /\ l_lines = <<>>

LinesIdle ==
    /\ l_pc = "idle"
    /\ l_spans = <<>>
    /\ l_lines = <<>>

\* parse_text_lines(spans)
ParseTextLines ==
    /\ l_pc = "start"
    /\ l_lines' = parse_text_lines(l_spans)
    /\ l_pc' = "done"
    /\ UNCHANGED l_spans

(***************************************************************************)
(* The SSE jobs of the API server (ferrules-api/src/main.rs): JobManager,  *)
(* parse_document_sse_handler with the parsing task it spawns, and the     *)
(* cancel endpoint.  The parser is seen through what get_page_count and    *)
(* parse_document return.  A job is                                        *)
(*   [pc, token, events, total_pages, pages_completed, cancel_result]:     *)
(* the position of its handler or task, whether its CancellationToken is   *)
(* cancelled, the events sent on its channel, the page count, the value of *)
(* the progress counter and what the last cancel_job for it returned.      *)
(***************************************************************************)
MaxJobs == 1
MaxCancels == 2

VARIABLES jobs, active_jobs, cancel_calls

jvars == <<jobs, active_jobs, cancel_calls>>

JobIds == 1..MaxJobs

NoJob ==
    [pc |-> "idle", token |-> FALSE, events |-> <<>>, total_pages |-> 0,
     pages_completed |-> 0, cancel_result |-> "none"]

JobsInit ==
    /\ jobs = [j \in JobIds |-> NoJob]
    /\ active_jobs = {}
    /\ cancel_calls = 0

JobsIdle ==
    /\ jobs = [j \in {} |-> NoJob]
    /\ active_jobs = {}
    /\ cancel_calls = 0

\* tx.send(event).await
SendEvent(j, event) == [jobs[j] EXCEPT !.events = Append(@, event)]

\* a request arrives: the handler creates the channel and calls start_job,
\* which inserts the job into active_jobs
StartJob(j) ==
    /\ jobs[j].pc = "idle"
    /\ active_jobs' = active_jobs \cup {j}
    /\ jobs' = [jobs EXCEPT ![j].pc = "reading"]
    /\ UNCHANGED cancel_calls

\* the handler creates the temp file, reads the multipart body, parses the
\* page range, opens and maps the file: any failure returns the error
\* response with `?`; otherwise JobStarted is sent and the parsing task is
\* spawned
ReadRequest(j) ==
    /\ jobs[j].pc = "reading"
    /\ \E ok \in BOOLEAN :
         jobs' = [jobs EXCEPT ![j] =
                    IF ok THEN [SendEvent(j, "job_started") EXCEPT !.pc = "task"]
                    ELSE [jobs[j] EXCEPT !.pc = "rejected"]]
    /\ UNCHANGED <<active_jobs, cancel_calls>>

\* the task's check for cancellation before starting
CheckBeforeStart(j) ==
    /\ jobs[j].pc = "task"
    /\ jobs' = [jobs EXCEPT ![j].pc = IF jobs[j].token THEN "cleanup" ELSE "count"]
    /\ UNCHANGED <<active_jobs, cancel_calls>>

\* parser.get_page_count(..).await: the count, or an error, which is sent
\* as an Error event
PageCount(j) ==
    /\ jobs[j].pc = "count"
    /\ \/ \E n \in 1..NumPages :
            jobs' = [jobs EXCEPT ![j].pc = "parse", ![j].total_pages = n]
       \/ jobs' = [jobs EXCEPT ![j] = [SendEvent(j, "error") EXCEPT !.pc = "cleanup"]]
    /\ UNCHANGED <<active_jobs, cancel_calls>>

\* the progress callback of a parsed page: try_send(Progress)
Progress(j) ==
    /\ jobs[j].pc = "parse"
    /\ jobs[j].pages_completed < jobs[j].total_pages
    /\ jobs' = [jobs EXCEPT ![j] =
                  [SendEvent(j, "progress") EXCEPT !.pages_completed = @ + 1]]
    /\ UNCHANGED <<active_jobs, cancel_calls>>

\* what parser.parse_document(..).await may do: return a document, return
\* an error, panic in the merger, or, when a checkpoint saw the token
\* cancelled, return the cancellation error
ParseOutcomes(j) ==
    {"ok", "err", "panic"} \cup (IF jobs[j].token THEN {"cancelled"} ELSE {})

\* parse_document returns and `match result` sends the terminal event
ParseReturn(j) ==
    /\ jobs[j].pc = "parse"
    /\ \E outcome \in ParseOutcomes(j) :
         jobs' = [jobs EXCEPT ![j] =
            CASE outcome = "panic" -> [jobs[j] EXCEPT !.pc = "panicked"]
              [] outcome = "ok" ->
                   IF ~jobs[j].token
                   THEN [SendEvent(j, "complete") EXCEPT !.pc = "cleanup"]
                   ELSE [jobs[j] EXCEPT !.pc = "cleanup"]
              [] outcome = "cancelled" ->
                   [SendEvent(j, "cancelled") EXCEPT !.pc = "cleanup"]
              [] outcome = "err" ->
                   IF ~jobs[j].token
                   THEN [SendEvent(j, "error") EXCEPT !.pc = "cleanup"]
                   ELSE [jobs[j] EXCEPT !.pc = "cleanup"]]
    /\ UNCHANGED <<active_jobs, cancel_calls>>

\* job_manager.complete_job(job_id).await
CompleteJob(j) ==
    /\ jobs[j].pc = "cleanup"
    /\ active_jobs' = active_jobs \ {j}
    /\ jobs' = [jobs EXCEPT ![j].pc = "finished"]
    /\ UNCHANGED cancel_calls

\* POST /parse/:job_id/cancel by a client that received JobStarted:
\* cancel_job cancels the token and sends Cancelled when the job is in
\* active_jobs, and returns the not-found error otherwise
CancelJob(j) ==
    /\ cancel_calls < MaxCancels
    /\ jobs[j].events # <<>>
    /\ cancel_calls' = cancel_calls + 1
    /\ jobs' = [jobs EXCEPT ![j] =
                  IF j \in active_jobs
                  THEN [SendEvent(j, "cancelled") EXCEPT !.token = TRUE,
                                                        !.cancel_result = "ok"]
                  ELSE [jobs[j] EXCEPT !.cancel_result = "not_found"]]
    /\ UNCHANGED active_jobs

\* the variables of the parts that are checked on their own
fvars == <<pgvars, nvars, ivars, kvars, lvars, jvars>>

FunctionsIdle ==
    PageIdle /\ NmsIdle /\ IouIdle /\ CentroidIdle /\ LinesIdle /\ JobsIdle

(***************************************************************************)
(* State of the pipeline specification Spec.                               *)
(*                                                                         *)
(* AllDocs are the parse_document calls the state has room for; SpecDocs   *)
(* are the calls that Spec runs.                                           *)
(***************************************************************************)
AllDocs == {"A", "B"}
SpecDocs == {"A"}
Pages == 0..(NumPages - 1)

VARIABLES
    cancelled,      \* [doc -> BOOLEAN]: what the call's is_cancelled() returns now
    config,         \* [doc -> [load_ok, page_range, count_only]]: the document
                    \* and the native request of the call
    opc,            \* [doc -> position of parse_document / parse_doc_pages]
    oresult,        \* [doc -> what parse_document returned]
    parsed_pages,   \* [doc -> Seq of StructuredPage], in push order
    task,           \* [doc -> [page -> page task of the JoinSet]]
    native_queue,   \* ParseNativeQueue.queue: Seq of requests (doc names)
    nw,             \* the native worker: the request it handles, pages left
    native_chan,    \* [doc -> (native_tx, native_rx) channel of the call]
    layout_queue,   \* ParseLayoutQueue.queue: Seq of LayoutQueueMessage
    lpc,            \* position of start_layout_parser: "recv" or "drain"
    hreq,           \* [doc -> [page -> state of the spawned handle_request]]
    permits,        \* free permits of the semaphore s
    oneshot,        \* [doc -> [page -> content of the response channel]]
    seen_orch,      \* history: [doc -> an orchestrator checkpoint saw true]
    seen_task,      \* history: [doc -> a page-task checkpoint saw true]
    reset_after,    \* history: [doc -> predicate went false after seen_task]
    flush_sent,     \* history: [doc -> number of Flush messages sent]
    queued_at_flush, \* history: [doc -> requests pending when Flush was sent]
    failed,         \* history: [doc -> pages whose extraction or inference failed]
    hist            \* history of the two queues, see NoHist

cvars == <<cancelled, config, opc, oresult, parsed_pages, task, native_queue,
           nw, native_chan, layout_queue, lpc, hreq, permits, oneshot,
           seen_orch, seen_task, reset_after, flush_sent, queued_at_flush,
           failed, hist>>

vars == <<mvars, cvars, fvars>>

NoRange == <<>>

\* the inputs of a call: whether pdfium can load the bytes with the given
\* password, and the optional page range start..end (a Range<usize>,
\* which may be empty or have its start after its end)
Configs ==
    {[load_ok |-> FALSE, page_range |-> NoRange, count_only |-> FALSE]} \cup
    {[load_ok |-> TRUE, page_range |-> r, count_only |-> FALSE] :
        r \in {NoRange} \cup
              {<<s, e>> : s \in 0..(NumPages + 1), e \in 0..(NumPages + 1)}}

NoConfig == [load_ok |-> FALSE, page_range |-> NoRange, count_only |-> FALSE]

\* the request of get_page_count: ParseNativeRequest::new_count_only
CountConfigs ==
    {[load_ok |-> ok, page_range |-> NoRange, count_only |-> TRUE] : ok \in BOOLEAN}

NoTask == [pc |-> "none", res |-> "none", elements |-> <<>>]

\* the history of the queues:
\*   enq      the native requests (their calls) in the order they were pushed
\*   log      what the native worker did, in order: <<"start", d, -1>> when
\*            it takes the request of call d, <<"page", d, p>> when it sends
\*            page p of that request, <<"count", d, n>> when it sends the
\*            page count n
\*   flushes  the number of Flush messages start_layout_parser received
\*   backlog  the requests <<d, p>> buffered in the layout channel when a
\*            Flush was received
\*   inflight the requests whose inference was running at that moment
\*   later    the requests pushed after a Flush was received
\*   sent     for every request <<d, p>>, the values passed to
\*            response_tx.send, in order, delivered or not
NoHist ==
    [enq |-> <<>>, log |-> <<>>, flushes |-> 0, backlog |-> {}, inflight |-> {},
     later |-> {}, sent |-> [r \in AllDocs \X Pages |-> <<>>]]

\* the element kinds a page's fusion (build_page_elements) may produce
PageElementChoices ==
    { <<"Header", "Text">>, <<"Header", "Header">>, <<"Caption">>,
      <<"Image", "Text">> }

PageElements(page_id, kinds) ==
    [i \in 1..Len(kinds) |->
        [id |-> i - 1, page_id |-> page_id, kind |-> kinds[i],
         text |-> <<ToString(i)>>, bbox |-> BBox(0, 0, 2, 2)]]

Request(d, p) == [type |-> "Request", doc |-> d, page |-> p]
Flush(d) == [type |-> "Flush", doc |-> d, page |-> -1]

Init ==
    /\ MergeIdle
    /\ FunctionsIdle
    /\ cancelled = [d \in AllDocs |-> FALSE]
    /\ config = [d \in AllDocs |-> NoConfig]
    /\ opc = [d \in AllDocs |-> "idle"]
    /\ oresult = [d \in AllDocs |-> [status |-> "none", pages |-> <<>>, blocks |-> <<>>]]
    /\ parsed_pages = [d \in AllDocs |-> <<>>]
    /\ task = [d \in AllDocs |-> [p \in Pages |-> NoTask]]
    /\ native_queue = <<>>
    /\ nw = [doc |-> "none", pages |-> <<>>]
    /\ native_chan = [d \in AllDocs |->
                        [buf |-> <<>>, tx_open |-> FALSE, rx_open |-> FALSE]]
    /\ layout_queue = <<>>
    /\ lpc = "recv"
    /\ hreq = [d \in AllDocs |-> [p \in Pages |-> "none"]]
    /\ permits = IntraThreads
    /\ oneshot = [d \in AllDocs |-> [p \in Pages |-> "empty"]]
    /\ seen_orch = [d \in AllDocs |-> FALSE]
    /\ seen_task = [d \in AllDocs |-> FALSE]
    /\ reset_after = [d \in AllDocs |-> FALSE]
    /\ flush_sent = [d \in AllDocs |-> 0]
    /\ queued_at_flush = [d \in AllDocs |-> {}]
    /\ failed = [d \in AllDocs |-> {}]
    /\ hist = NoHist


(***************************************************************************)
(* The cancellation predicate.  It is a user-supplied Fn() -> bool: the    *)
(* environment may turn it true and may turn it false again.               *)
(***************************************************************************)
SetCancel(d) ==
    /\ opc[d] # "returned"
    /\ ~cancelled[d]
    /\ cancelled' = [cancelled EXCEPT ![d] = TRUE]
    /\ UNCHANGED <<mvars, fvars, hist, config, opc, oresult, parsed_pages, task, native_queue,
                   nw, native_chan, layout_queue, lpc, hreq, permits, oneshot,
                   seen_orch, seen_task, reset_after, flush_sent, queued_at_flush, failed>>

ClearCancel(d) ==
    /\ opc[d] # "returned"
    /\ cancelled[d]
    /\ cancelled' = [cancelled EXCEPT ![d] = FALSE]
    /\ reset_after' = [reset_after EXCEPT ![d] = @ \/ seen_task[d]]
    /\ UNCHANGED <<mvars, fvars, hist, config, opc, oresult, parsed_pages, task, native_queue,
                   nw, native_chan, layout_queue, lpc, hreq, permits, oneshot,
                   seen_orch, seen_task, flush_sent, queued_at_flush, failed>>

\* a faulty checkpoint that never consults the predicate
CancelCbNever(d) == FALSE
\* the three `if cancel_cb()` checkpoints of parse_doc_pages
CancelCbStart(d) == cancelled[d]
CancelCbSpawn(d) == cancelled[d]
CancelCbJoin(d) == cancelled[d]
\* the two `if cancel_cb()` checkpoints of parse_task
CancelCbTaskBefore(d) == cancelled[d]
CancelCbTaskAfter(d) == cancelled[d]

(***************************************************************************)
(* The orchestrator: parse_document and parse_doc_pages (document.rs).     *)
(***************************************************************************)
\* parsed_pages.sort_by(|p1, p2| p1.id.cmp(&p2.id)): a stable sort by id
RECURSIVE InsertById(_, _)
InsertById(sorted, page) ==
    IF sorted = <<>> THEN <<page>>
    ELSE IF Head(sorted).id <= page.id
         THEN <<Head(sorted)>> \o InsertById(Tail(sorted), page)
         ELSE <<page>> \o sorted

RECURSIVE SortLoop(_, _)
SortLoop(pages, sorted) ==
    IF pages = <<>> THEN sorted
    ELSE SortLoop(Tail(pages), InsertById(sorted, Head(pages)))

\* a faulty sort that leaves the pages in completion order
SortPagesUnsorted(pages) == pages
SortPages(pages) == SortLoop(pages, <<>>)

\* parsed_pages.iter().flat_map(|p| p.elements.clone())
RECURSIVE FlatElements(_)
FlatElements(pages) ==
    IF pages = <<>> THEN <<>>
    ELSE Head(pages).elements \o FlatElements(Tail(pages))

\* parse_document after parse_doc_pages returned Ok(pages): the document,
\* or the panic of the merger
AssembleDocument(pages) ==
    LET merged == merge_elements_into_blocks(FlatElements(pages))
    IN  IF merged.status = "ok"
        THEN [status |-> "doc",
              pages |-> [i \in 1..Len(pages) |-> pages[i].id],
              blocks |-> merged.blocks]
        ELSE [status |-> merged.status, pages |-> <<>>, blocks |-> <<>>]

ErrorResult(kind) == [status |-> kind, pages |-> <<>>, blocks |-> <<>>]

\* parse_document is called: the first checkpoint, then the native request
\* is pushed on the native queue
ParseDocument(d) ==
    /\ opc[d] = "idle"
    /\ \E c \in Configs :
        /\ config' = [config EXCEPT ![d] = c]
        /\ IF CancelCbStart(d)
           THEN /\ opc' = [opc EXCEPT ![d] = "flush"]
                /\ seen_orch' = [seen_orch EXCEPT ![d] = TRUE]
                /\ UNCHANGED <<native_queue, native_chan, oresult>>
           ELSE IF nw.doc = "dead"
           THEN \* the receiver of the native queue is gone: push fails
                /\ opc' = [opc EXCEPT ![d] = "returned"]
                /\ oresult' = [oresult EXCEPT ![d] = ErrorResult("err")]
                /\ UNCHANGED <<native_queue, native_chan, seen_orch>>
           ELSE /\ Len(native_queue) < MAX_CONCURRENT_NATIVE_REQS
                /\ native_queue' = Append(native_queue, d)
                /\ native_chan' = [native_chan EXCEPT ![d] =
                        [buf |-> <<>>, tx_open |-> TRUE, rx_open |-> TRUE]]
                /\ opc' = [opc EXCEPT ![d] = "recv"]
                /\ UNCHANGED <<seen_orch, oresult>>
    /\ hist' = IF native_queue' = native_queue THEN hist
               ELSE [hist EXCEPT !.enq = Append(@, d)]
    /\ UNCHANGED <<mvars, fvars, cancelled, parsed_pages, task, nw, layout_queue, lpc,
                   hreq, permits, oneshot, seen_task, reset_after, flush_sent,
                   queued_at_flush, failed>>

\* what get_page_count returns: the count n sits in the pages field
CountResult(n) == [status |-> "count", pages |-> <<n>>, blocks |-> <<>>]

\* get_page_count is called: a count-only request is pushed on the native
\* queue
GetPageCount(d) ==
    /\ opc[d] = "idle"
    /\ \E c \in CountConfigs :
        /\ config' = [config EXCEPT ![d] = c]
        /\ IF nw.doc = "dead"
           THEN /\ opc' = [opc EXCEPT ![d] = "returned"]
                /\ oresult' = [oresult EXCEPT ![d] = ErrorResult("err")]
                /\ UNCHANGED <<native_queue, native_chan, hist>>
           ELSE /\ Len(native_queue) < MAX_CONCURRENT_NATIVE_REQS
                /\ native_queue' = Append(native_queue, d)
                /\ native_chan' = [native_chan EXCEPT ![d] =
                        [buf |-> <<>>, tx_open |-> TRUE, rx_open |-> TRUE]]
                /\ opc' = [opc EXCEPT ![d] = "count"]
                /\ hist' = [hist EXCEPT !.enq = Append(@, d)]
                /\ UNCHANGED oresult
    /\ UNCHANGED <<mvars, fvars, cancelled, parsed_pages, task, nw, layout_queue, lpc,
                   hreq, permits, oneshot, seen_orch, seen_task, reset_after,
                   flush_sent, queued_at_flush, failed>>

\* get_page_count: result_rx.recv().await returns the count result, or None
\* when the worker dropped the sender without sending
RecvPageCount(d) ==
    /\ opc[d] = "count"
    /\ \/ /\ native_chan[d].buf # <<>>
          /\ oresult' = [oresult EXCEPT ![d] = CountResult(NumPages)]
       \/ /\ native_chan[d].buf = <<>>
          /\ ~native_chan[d].tx_open
          /\ oresult' = [oresult EXCEPT ![d] = ErrorResult("err")]
    /\ opc' = [opc EXCEPT ![d] = "returned"]
    /\ native_chan' = [native_chan EXCEPT ![d].rx_open = FALSE, ![d].buf = <<>>]
    /\ UNCHANGED <<mvars, fvars, hist, cancelled, config, parsed_pages, task, native_queue,
                   nw, layout_queue, lpc, hreq, permits, oneshot, seen_orch,
                   seen_task, reset_after, flush_sent, queued_at_flush, failed>>

\* `while let Some(native_page) = native_rx.recv().await`: one native
\* result is received, the checkpoint is consulted, a page task is spawned
RecvNative(d) ==
    /\ opc[d] = "recv"
    /\ native_chan[d].buf # <<>>
    /\ LET native_page == Head(native_chan[d].buf)
       IN  /\ native_chan' = [native_chan EXCEPT ![d].buf = Tail(@)]
           /\ IF CancelCbSpawn(d)
              THEN /\ opc' = [opc EXCEPT ![d] = "flush"]
                   /\ seen_orch' = [seen_orch EXCEPT ![d] = TRUE]
                   /\ UNCHANGED task
              ELSE /\ task' = IF native_page.ok
                              THEN [task EXCEPT ![d][native_page.page_id].pc = "spawned"]
                              ELSE task
                   /\ UNCHANGED <<opc, seen_orch>>
    /\ UNCHANGED <<mvars, fvars, hist, cancelled, config, oresult, parsed_pages, native_queue,
                   nw, layout_queue, lpc, hreq, permits, oneshot, seen_task,
                   reset_after, flush_sent, queued_at_flush, failed>>

\* native_rx.recv() returns None: the sender is dropped and the buffer empty
RecvNativeClosed(d) ==
    /\ opc[d] = "recv"
    /\ native_chan[d].buf = <<>>
    /\ ~native_chan[d].tx_open
    /\ opc' = [opc EXCEPT ![d] = "join"]
    /\ UNCHANGED <<mvars, fvars, hist, cancelled, config, oresult, parsed_pages, task,
                   native_queue, nw, native_chan, layout_queue, lpc, hreq,
                   permits, oneshot, seen_orch, seen_task, reset_after,
                   flush_sent, queued_at_flush, failed>>

\* `while let Some(result) = set.join_next().await`: a completed page task
\* is collected after the checkpoint was consulted
JoinNext(d, p) ==
    /\ opc[d] = "join"
    /\ task[d][p].pc = "done"
    /\ IF CancelCbJoin(d)
       THEN /\ opc' = [opc EXCEPT ![d] = "flush"]
            /\ seen_orch' = [seen_orch EXCEPT ![d] = TRUE]
            /\ UNCHANGED parsed_pages
       ELSE /\ parsed_pages' =
                IF task[d][p].res = "ok"
                THEN [parsed_pages EXCEPT ![d] =
                        Append(@, [id |-> p, elements |-> task[d][p].elements])]
                ELSE parsed_pages
            /\ UNCHANGED <<opc, seen_orch>>
    /\ task' = [task EXCEPT ![d][p].pc = "joined"]
    /\ UNCHANGED <<mvars, fvars, hist, cancelled, config, oresult, native_queue, nw,
                   native_chan, layout_queue, lpc, hreq, permits, oneshot,
                   seen_task, reset_after, flush_sent, queued_at_flush, failed>>

\* join_next() returns None: the pages are sorted, parse_doc_pages returns
\* Ok and parse_document assembles the blocks
ReturnDocument(d) ==
    /\ opc[d] = "join"
    /\ \A p \in Pages : task[d][p].pc \in {"none", "joined"}
    /\ opc' = [opc EXCEPT ![d] = "returned"]
    /\ oresult' = [oresult EXCEPT ![d] = AssembleDocument(SortPages(parsed_pages[d]))]
    /\ native_chan' = [native_chan EXCEPT ![d].rx_open = FALSE, ![d].buf = <<>>]
    /\ UNCHANGED <<mvars, fvars, hist, cancelled, config, parsed_pages, task, native_queue, nw,
                   layout_queue, lpc, hreq, permits, oneshot, seen_orch,
                   seen_task, reset_after, flush_sent, queued_at_flush, failed>>

\* the layout requests that are enqueued and whose inference has not started
PendingRequests ==
    {<<layout_queue[i].doc, layout_queue[i].page>> :
        i \in {j \in 1..Len(layout_queue) : layout_queue[j].type = "Request"}}
    \cup {<<d, p>> \in AllDocs \X Pages : hreq[d][p] = "waiting"}

\* `let _ = self.layout_queue.flush().await; return Err(..cancelled)`:
\* returning drops native_rx and the JoinSet, which aborts its tasks
FlushAndReturn(d) ==
    /\ opc[d] = "flush"
    /\ Len(layout_queue) < IntraThreads
    /\ layout_queue' = Append(layout_queue, Flush(d))
    /\ opc' = [opc EXCEPT ![d] = "returned"]
    /\ oresult' = [oresult EXCEPT ![d] = ErrorResult("cancelled")]
    /\ native_chan' = [native_chan EXCEPT ![d].rx_open = FALSE, ![d].buf = <<>>]
    /\ task' = [task EXCEPT ![d] =
                  [p \in Pages |->
                     IF task[d][p].pc \in {"spawned", "submit", "await", "done"}
                     THEN [task[d][p] EXCEPT !.pc = "aborted"]
                     ELSE task[d][p]]]
    /\ flush_sent' = [flush_sent EXCEPT ![d] = @ + 1]
    /\ queued_at_flush' = [queued_at_flush EXCEPT ![d] = PendingRequests]
    /\ UNCHANGED <<mvars, fvars, hist, cancelled, config, parsed_pages, native_queue, nw, lpc,
                   hreq, permits, oneshot, seen_orch, seen_task, reset_after,
                   failed>>


(***************************************************************************)
(* The native worker: start_native_parser and handle_parse_native_req      *)
(* (parse/native.rs).                                                      *)
(***************************************************************************)
RECURSIVE SeqFromTo(_, _)
SeqFromTo(a, b) == IF a > b THEN <<>> ELSE <<a>> \o SeqFromTo(a + 1, b)

\* `range.end > pages.len()`: the request is refused
RangeOutOfBounds(range) == range # NoRange /\ range[2] > NumPages

\* pages.drain(range), or every page: the page ids to produce
PagesOfRange(range) ==
    IF range = NoRange THEN SeqFromTo(0, NumPages - 1)
    ELSE SeqFromTo(range[1], range[2] - 1)

\* a worker that takes the newest request of the queue first
NativeRecvNewest ==
    /\ nw.doc = "none"
    /\ native_queue # <<>>
    /\ LET d == native_queue[Len(native_queue)]
           range == config[d].page_range
       IN  /\ native_queue' = SubSeq(native_queue, 1, Len(native_queue) - 1)
           /\ IF ~config[d].load_ok
              THEN /\ native_chan' = [native_chan EXCEPT ![d].tx_open = FALSE]
                   /\ hist' = [hist EXCEPT !.log = Append(@, <<"start", d, -1>>)]
                   /\ UNCHANGED nw
              ELSE IF config[d].count_only
              THEN /\ native_chan' = [native_chan EXCEPT
                          ![d].buf = IF native_chan[d].rx_open
                                     THEN Append(@, [page_id |-> 0, ok |-> TRUE])
                                     ELSE @,
                          ![d].tx_open = FALSE]
                   /\ hist' = [hist EXCEPT !.log =
                          IF native_chan[d].rx_open
                          THEN @ \o <<<<"start", d, -1>>, <<"count", d, NumPages>>>>
                          ELSE Append(@, <<"start", d, -1>>)]
                   /\ UNCHANGED nw
              ELSE /\ hist' = [hist EXCEPT !.log = Append(@, <<"start", d, -1>>)]
                   /\ IF RangeOutOfBounds(range)
                      THEN /\ native_chan' = [native_chan EXCEPT ![d].tx_open = FALSE]
                           /\ UNCHANGED nw
                      ELSE IF range # NoRange /\ range[1] > range[2]
                      THEN /\ native_chan' = [native_chan EXCEPT ![d].tx_open = FALSE]
                           /\ nw' = [doc |-> "dead", pages |-> <<>>]
                      ELSE IF PagesOfRange(range) = <<>>
                      THEN /\ native_chan' = [native_chan EXCEPT ![d].tx_open = FALSE]
                           /\ UNCHANGED nw
                      ELSE /\ nw' = [doc |-> d, pages |-> PagesOfRange(range)]
                           /\ UNCHANGED native_chan
    /\ UNCHANGED <<mvars, fvars, cancelled, config, opc, oresult, parsed_pages, task,
                   layout_queue, lpc, hreq, permits, oneshot, seen_orch,
                   seen_task, reset_after, flush_sent, queued_at_flush, failed>>

\* input_rx.blocking_recv() returns a request; the document is loaded; a
\* count-only request is answered with the page count; otherwise the page
\* range is checked.  An Err return (load failure, range end out of
\* bounds, receiver of the count gone) is printed by start_native_parser
\* and drops sender_tx; drain panics when the range starts after its end.
NativeRecv ==
    /\ nw.doc = "none"
    /\ native_queue # <<>>
    /\ LET d == Head(native_queue)
           range == config[d].page_range
       IN  /\ native_queue' = Tail(native_queue)
           /\ IF ~config[d].load_ok
              THEN /\ native_chan' = [native_chan EXCEPT ![d].tx_open = FALSE]
                   /\ hist' = [hist EXCEPT !.log = Append(@, <<"start", d, -1>>)]
                   /\ UNCHANGED nw
              ELSE IF config[d].count_only
              THEN /\ native_chan' = [native_chan EXCEPT
                          ![d].buf = IF native_chan[d].rx_open
                                     THEN Append(@, [page_id |-> 0, ok |-> TRUE])
                                     ELSE @,
                          ![d].tx_open = FALSE]
                   /\ hist' = [hist EXCEPT !.log =
                          IF native_chan[d].rx_open
                          THEN @ \o <<<<"start", d, -1>>, <<"count", d, NumPages>>>>
                          ELSE Append(@, <<"start", d, -1>>)]
                   /\ UNCHANGED nw
              ELSE /\ hist' = [hist EXCEPT !.log = Append(@, <<"start", d, -1>>)]
                   /\ IF RangeOutOfBounds(range)
                      THEN /\ native_chan' = [native_chan EXCEPT ![d].tx_open = FALSE]
                           /\ UNCHANGED nw
                      ELSE IF range # NoRange /\ range[1] > range[2]
                      THEN /\ native_chan' = [native_chan EXCEPT ![d].tx_open = FALSE]
                           /\ nw' = [doc |-> "dead", pages |-> <<>>]
                      ELSE IF PagesOfRange(range) = <<>>
                      THEN /\ native_chan' = [native_chan EXCEPT ![d].tx_open = FALSE]
                           /\ UNCHANGED nw
                      ELSE /\ nw' = [doc |-> d, pages |-> PagesOfRange(range)]
                           /\ UNCHANGED native_chan
    /\ UNCHANGED <<mvars, fvars, cancelled, config, opc, oresult, parsed_pages, task,
                   layout_queue, lpc, hreq, permits, oneshot, seen_orch,
                   seen_task, reset_after, flush_sent, queued_at_flush, failed>>

\* a worker whose send waits for room whether or not the receiver is
\* still there
NativePageWaiting ==
    /\ nw.doc \in AllDocs
    /\ LET d == nw.doc
           page_id == Head(nw.pages)
       IN  IF FALSE
           THEN /\ native_chan' = [native_chan EXCEPT ![d].tx_open = FALSE]
                /\ nw' = [doc |-> "none", pages |-> <<>>]
                /\ UNCHANGED <<failed, hist>>
           ELSE /\ native_chan[d].rx_open
                /\ Len(native_chan[d].buf) < NativeSinkCap
                /\ hist' = [hist EXCEPT !.log = Append(@, <<"page", d, page_id>>)]
                /\ \E ok \in BOOLEAN :
                     /\ native_chan' = [native_chan EXCEPT
                            ![d].buf = Append(@, [page_id |-> page_id, ok |-> ok]),
                            ![d].tx_open = (Tail(nw.pages) # <<>>)]
                     /\ failed' = IF ok THEN failed
                                  ELSE [failed EXCEPT ![d] = @ \cup {page_id}]
                /\ nw' = IF Tail(nw.pages) = <<>>
                         THEN [doc |-> "none", pages |-> <<>>]
                         ELSE [nw EXCEPT !.pages = Tail(@)]
    /\ UNCHANGED <<mvars, fvars, cancelled, config, opc, oresult, parsed_pages, task,
                   native_queue, layout_queue, lpc, hreq, permits, oneshot,
                   seen_orch, seen_task, reset_after, flush_sent, queued_at_flush>>

\* one iteration of `for (page_id, mut page) in pages`: parse_page_native
\* succeeds or fails, and its result is sent with blocking_send, which
\* fails (and ends the request) when the receiver is dropped
NativePage ==
    /\ nw.doc \in AllDocs
    /\ LET d == nw.doc
           page_id == Head(nw.pages)
       IN  IF ~native_chan[d].rx_open
           THEN /\ native_chan' = [native_chan EXCEPT ![d].tx_open = FALSE]
                /\ nw' = [doc |-> "none", pages |-> <<>>]
                /\ UNCHANGED <<failed, hist>>
           ELSE /\ Len(native_chan[d].buf) < NativeSinkCap
                /\ hist' = [hist EXCEPT !.log = Append(@, <<"page", d, page_id>>)]
                /\ \E ok \in BOOLEAN :
                     /\ native_chan' = [native_chan EXCEPT
                            ![d].buf = Append(@, [page_id |-> page_id, ok |-> ok]),
                            ![d].tx_open = (Tail(nw.pages) # <<>>)]
                     /\ failed' = IF ok THEN failed
                                  ELSE [failed EXCEPT ![d] = @ \cup {page_id}]
                /\ nw' = IF Tail(nw.pages) = <<>>
                         THEN [doc |-> "none", pages |-> <<>>]
                         ELSE [nw EXCEPT !.pages = Tail(@)]
    /\ UNCHANGED <<mvars, fvars, cancelled, config, opc, oresult, parsed_pages, task,
                   native_queue, layout_queue, lpc, hreq, permits, oneshot,
                   seen_orch, seen_task, reset_after, flush_sent, queued_at_flush>>

(***************************************************************************)
(* A page task: parse_task (document.rs) around the page assembly          *)
(* (parse/page.rs).                                                        *)
(***************************************************************************)
\* the task starts: the checkpoint before processing the page
TaskStart(d, p) ==
    /\ task[d][p].pc = "spawned"
    /\ IF CancelCbTaskBefore(d)
       THEN /\ task' = [task EXCEPT ![d][p].pc = "done", ![d][p].res = "cancelled"]
            /\ seen_task' = [seen_task EXCEPT ![d] = TRUE]
       ELSE /\ task' = [task EXCEPT ![d][p].pc = "submit"]
            /\ UNCHANGED seen_task
    /\ UNCHANGED <<mvars, fvars, hist, cancelled, config, opc, oresult, parsed_pages,
                   native_queue, nw, native_chan, layout_queue, lpc, hreq,
                   permits, oneshot, seen_orch, reset_after, flush_sent,
                   queued_at_flush, failed>>

\* layout_queue.push(layout_req).await: waits for room in the channel
TaskSubmit(d, p) ==
    /\ task[d][p].pc = "submit"
    /\ Len(layout_queue) < IntraThreads
    /\ layout_queue' = Append(layout_queue, Request(d, p))
    /\ task' = [task EXCEPT ![d][p].pc = "await"]
    /\ hist' = IF hist.flushes > 0 THEN [hist EXCEPT !.later = @ \cup {<<d, p>>}]
               ELSE hist
    /\ UNCHANGED <<mvars, fvars, cancelled, config, opc, oresult, parsed_pages,
                   native_queue, nw, native_chan, lpc, hreq, permits, oneshot,
                   seen_orch, seen_task, reset_after, flush_sent, queued_at_flush, failed>>

\* layout_rx.await returns; with a layout the page is assembled
\* (parse_page_text, build_page_elements), with an error the page fails;
\* then the checkpoint after processing
TaskFinish(d, p) ==
    /\ task[d][p].pc = "await"
    /\ oneshot[d][p] # "empty"
    /\ IF CancelCbTaskAfter(d)
       THEN /\ task' = [task EXCEPT ![d][p].pc = "done", ![d][p].res = "cancelled"]
            /\ seen_task' = [seen_task EXCEPT ![d] = TRUE]
       ELSE /\ IF oneshot[d][p] = "layout"
               THEN \E kinds \in PageElementChoices :
                      task' = [task EXCEPT ![d][p] =
                                 [pc |-> "done", res |-> "ok",
                                  elements |-> PageElements(p, kinds)]]
               ELSE task' = [task EXCEPT ![d][p].pc = "done",
                                         ![d][p].res = "layout_err"]
            /\ UNCHANGED seen_task
    /\ UNCHANGED <<mvars, fvars, hist, cancelled, config, opc, oresult, parsed_pages,
                   native_queue, nw, native_chan, layout_queue, lpc, hreq,
                   permits, oneshot, seen_orch, reset_after, flush_sent,
                   queued_at_flush, failed>>

(***************************************************************************)
(* The layout queue task: start_layout_parser and handle_request           *)
(* (layout/mod.rs).                                                        *)
(***************************************************************************)
\* response_tx.send(v): the value is delivered unless the receiver (the
\* page task) is gone, in which case the error of send is ignored
SendResponse(d, p, v) ==
    IF task[d][p].pc = "await"
    THEN [oneshot EXCEPT ![d][p] = v]
    ELSE oneshot

\* the value passed to response_tx.send: Ok(ParseLayoutResponse { page_id,
\* .. }) or Err(..)
Response(v, page_id) == IF v = "layout" THEN <<v, page_id>> ELSE <<v>>

\* the history after response_tx.send(value) of the request <<d, p>>
Sent(d, p, value) == [hist EXCEPT !.sent[<<d, p>>] = Append(@, value)]

\* a queue task that answers a request at once and still hands it to a
\* handler
LayoutRecvAnswering ==
    /\ lpc = "recv"
    /\ layout_queue # <<>>
    /\ LET message == Head(layout_queue)
       IN  /\ layout_queue' = Tail(layout_queue)
           /\ IF message.type = "Request"
              THEN /\ hreq' = [hreq EXCEPT ![message.doc][message.page] = "waiting"]
                   /\ oneshot' = SendResponse(message.doc, message.page, "cancel_err")
                   /\ hist' = Sent(message.doc, message.page, Response("cancel_err", -1))
                   /\ UNCHANGED lpc
              ELSE /\ lpc' = "drain"
                   /\ hist' = [hist EXCEPT
                         !.flushes = @ + 1,
                         !.backlog = @ \cup
                            {<<layout_queue[i].doc, layout_queue[i].page>> :
                               i \in {j \in 2..Len(layout_queue) :
                                         layout_queue[j].type = "Request"}},
                         !.inflight = @ \cup
                            {<<d, p>> \in AllDocs \X Pages : hreq[d][p] = "inferring"}]
                   /\ UNCHANGED <<hreq, oneshot>>
    /\ UNCHANGED <<mvars, fvars, cancelled, config, opc, oresult, parsed_pages, task,
                   native_queue, nw, native_chan, permits, seen_orch,
                   seen_task, reset_after, flush_sent, queued_at_flush, failed>>

\* input_rx.recv().await returns a message: a Request is handed to a
\* spawned handle_request, a Flush starts the drain
LayoutRecv ==
    /\ lpc = "recv"
    /\ layout_queue # <<>>
    /\ LET message == Head(layout_queue)
       IN  /\ layout_queue' = Tail(layout_queue)
           /\ IF message.type = "Request"
              THEN /\ hreq' = [hreq EXCEPT ![message.doc][message.page] = "waiting"]
                   /\ UNCHANGED <<lpc, hist>>
              ELSE /\ lpc' = "drain"
                   /\ hist' = [hist EXCEPT
                         !.flushes = @ + 1,
                         !.backlog = @ \cup
                            {<<layout_queue[i].doc, layout_queue[i].page>> :
                               i \in {j \in 2..Len(layout_queue) :
                                         layout_queue[j].type = "Request"}},
                         !.inflight = @ \cup
                            {<<d, p>> \in AllDocs \X Pages : hreq[d][p] = "inferring"}]
                   /\ UNCHANGED hreq
    /\ UNCHANGED <<mvars, fvars, cancelled, config, opc, oresult, parsed_pages, task,
                   native_queue, nw, native_chan, permits, oneshot, seen_orch,
                   seen_task, reset_after, flush_sent, queued_at_flush, failed>>

\* a drain that discards the buffered requests without answering them
LayoutDrainSilent ==
    /\ lpc = "drain"
    /\ IF layout_queue = <<>>
       THEN /\ lpc' = "recv"
            /\ UNCHANGED <<layout_queue, oneshot>>
       ELSE /\ layout_queue' = Tail(layout_queue)
            /\ UNCHANGED <<lpc, oneshot>>
    /\ UNCHANGED <<mvars, fvars, hist, cancelled, config, opc, oresult, parsed_pages, task,
                   native_queue, nw, native_chan, hreq, permits, seen_orch,
                   seen_task, reset_after, flush_sent, queued_at_flush, failed>>

\* one iteration of `while let Ok(message) = input_rx.try_recv()`
LayoutDrain ==
    /\ lpc = "drain"
    /\ IF layout_queue = <<>>
       THEN /\ lpc' = "recv"
            /\ UNCHANGED <<layout_queue, oneshot, hist>>
       ELSE LET message == Head(layout_queue)
            IN  /\ layout_queue' = Tail(layout_queue)
                /\ oneshot' = IF message.type = "Request"
                              THEN SendResponse(message.doc, message.page, "cancel_err")
                              ELSE oneshot
                /\ hist' = IF message.type = "Request"
                           THEN Sent(message.doc, message.page,
                                     Response("cancel_err", -1))
                           ELSE hist
                /\ UNCHANGED lpc
    /\ UNCHANGED <<mvars, fvars, cancelled, config, opc, oresult, parsed_pages, task,
                   native_queue, nw, native_chan, hreq, permits, seen_orch,
                   seen_task, reset_after, flush_sent, queued_at_flush, failed>>

\* a handler that starts its inference without waiting for a permit
HandleAcquireUnguarded(d, p) ==
    /\ hreq[d][p] = "waiting"
    /\ permits' = permits - 1
    /\ hreq' = [hreq EXCEPT ![d][p] = "inferring"]
    /\ UNCHANGED <<mvars, fvars, hist, cancelled, config, opc, oresult, parsed_pages, task,
                   native_queue, nw, native_chan, layout_queue, lpc, oneshot,
                   seen_orch, seen_task, reset_after, flush_sent, queued_at_flush, failed>>

\* handle_request: `let _permit = s.acquire().await.unwrap()`
HandleAcquire(d, p) ==
    /\ hreq[d][p] = "waiting"
    /\ permits > 0
    /\ permits' = permits - 1
    /\ hreq' = [hreq EXCEPT ![d][p] = "inferring"]
    /\ UNCHANGED <<mvars, fvars, hist, cancelled, config, opc, oresult, parsed_pages, task,
                   native_queue, nw, native_chan, layout_queue, lpc, oneshot,
                   seen_orch, seen_task, reset_after, flush_sent, queued_at_flush, failed>>

\* a handler whose send is followed by expect(..): it panics when the
\* receiver is gone
HandleFinishExpect(d, p) ==
    /\ hreq[d][p] = "inferring"
    /\ permits' = permits + 1
    /\ hreq' = [hreq EXCEPT ![d][p] =
                  IF task[d][p].pc = "await" THEN "done" ELSE "panicked"]
    /\ \E v \in {"layout", "infer_err"} :
         /\ oneshot' = SendResponse(d, p, v)
         /\ hist' = Sent(d, p, Response(v, p))
         /\ failed' = IF v = "layout" THEN failed
                      ELSE [failed EXCEPT ![d] = @ \cup {p}]
    /\ UNCHANGED <<mvars, fvars, cancelled, config, opc, oresult, parsed_pages, task,
                   native_queue, nw, native_chan, layout_queue, lpc, seen_orch,
                   seen_task, reset_after, flush_sent, queued_at_flush>>

\* handle_request: parse_layout_async returns Ok or Err, the permit is
\* dropped and the result is sent on the response channel
HandleFinish(d, p) ==
    /\ hreq[d][p] = "inferring"
    /\ permits' = permits + 1
    /\ hreq' = [hreq EXCEPT ![d][p] = "done"]
    /\ \E v \in {"layout", "infer_err"} :
         /\ oneshot' = SendResponse(d, p, v)
         /\ hist' = Sent(d, p, Response(v, p))
         /\ failed' = IF v = "layout" THEN failed
                      ELSE [failed EXCEPT ![d] = @ \cup {p}]
    /\ UNCHANGED <<mvars, fvars, cancelled, config, opc, oresult, parsed_pages, task,
                   native_queue, nw, native_chan, layout_queue, lpc, seen_orch,
                   seen_task, reset_after, flush_sent, queued_at_flush>>

(***************************************************************************)
(* The specifications.                                                     *)
(***************************************************************************)
Next ==
    \/ \E d \in SpecDocs : SetCancel(d)
    \/ \E d \in SpecDocs : ClearCancel(d)
    \/ \E d \in SpecDocs : ParseDocument(d)
    \/ \E d \in SpecDocs : RecvNative(d)
    \/ \E d \in SpecDocs : RecvNativeClosed(d)
    \/ \E d \in SpecDocs, p \in Pages : JoinNext(d, p)
    \/ \E d \in SpecDocs : ReturnDocument(d)
    \/ \E d \in SpecDocs : FlushAndReturn(d)
    \/ NativeRecv
    \/ NativePage
    \/ \E d \in SpecDocs, p \in Pages : TaskStart(d, p)
    \/ \E d \in SpecDocs, p \in Pages : TaskSubmit(d, p)
    \/ \E d \in SpecDocs, p \in Pages : TaskFinish(d, p)
    \/ LayoutRecv
    \/ LayoutDrain
    \/ \E d \in SpecDocs, p \in Pages : HandleAcquire(d, p)
    \/ \E d \in SpecDocs, p \in Pages : HandleFinish(d, p)

Spec == Init /\ [][Next]_vars

\* Scheduling: tokio runs every task that is ready, and the native worker
\* is a thread of its own, so a step of the orchestrator, of a page task,
\* of the native worker, of the queue task or of a handler that stays
\* possible is taken.  The cancellation predicate is the environment's and
\* has no such condition.
Fairness ==
    /\ \A d \in SpecDocs :
          /\ WF_vars(RecvNative(d))
          /\ WF_vars(RecvNativeClosed(d))
          /\ WF_vars(ReturnDocument(d))
          /\ WF_vars(FlushAndReturn(d))
    /\ \A d \in SpecDocs, p \in Pages :
          /\ WF_vars(JoinNext(d, p))
          /\ WF_vars(TaskStart(d, p))
          /\ WF_vars(TaskSubmit(d, p))
          /\ WF_vars(TaskFinish(d, p))
          /\ WF_vars(HandleAcquire(d, p))
          /\ WF_vars(HandleFinish(d, p))
    /\ WF_vars(NativeRecv)
    /\ WF_vars(NativePage)
    /\ WF_vars(LayoutRecv)
    /\ WF_vars(LayoutDrain)

SpecFair == Spec /\ Fairness

\* the merger applied to every bounded element sequence
InitMerge ==
    /\ MergeInit
    /\ FunctionsIdle
    /\ cancelled = [d \in AllDocs |-> FALSE]
    /\ config = [d \in AllDocs |-> NoConfig]
    /\ opc = [d \in AllDocs |-> "idle"]
    /\ oresult = [d \in AllDocs |-> [status |-> "none", pages |-> <<>>, blocks |-> <<>>]]
    /\ parsed_pages = [d \in AllDocs |-> <<>>]
    /\ task = [d \in AllDocs |-> [p \in Pages |-> NoTask]]
    /\ native_queue = <<>>
    /\ nw = [doc |-> "none", pages |-> <<>>]
    /\ native_chan = [d \in AllDocs |->
                        [buf |-> <<>>, tx_open |-> FALSE, rx_open |-> FALSE]]
    /\ layout_queue = <<>>
    /\ lpc = "recv"
    /\ hreq = [d \in AllDocs |-> [p \in Pages |-> "none"]]
    /\ permits = IntraThreads
    /\ oneshot = [d \in AllDocs |-> [p \in Pages |-> "empty"]]
    /\ seen_orch = [d \in AllDocs |-> FALSE]
    /\ seen_task = [d \in AllDocs |-> FALSE]
    /\ reset_after = [d \in AllDocs |-> FALSE]
    /\ flush_sent = [d \in AllDocs |-> 0]
    /\ queued_at_flush = [d \in AllDocs |-> {}]
    /\ failed = [d \in AllDocs |-> {}]
    /\ hist = NoHist

NextMerge == MergeElements /\ UNCHANGED <<cvars, fvars>>

SpecMerge == InitMerge /\ [][NextMerge]_vars

\* no parse_document call is running
CallsIdle ==
    /\ cancelled = [d \in AllDocs |-> FALSE]
    /\ config = [d \in AllDocs |-> NoConfig]
    /\ opc = [d \in AllDocs |-> "idle"]
    /\ oresult = [d \in AllDocs |-> [status |-> "none", pages |-> <<>>, blocks |-> <<>>]]
    /\ parsed_pages = [d \in AllDocs |-> <<>>]
    /\ task = [d \in AllDocs |-> [p \in Pages |-> NoTask]]
    /\ native_queue = <<>>
    /\ nw = [doc |-> "none", pages |-> <<>>]
    /\ native_chan = [d \in AllDocs |->
                        [buf |-> <<>>, tx_open |-> FALSE, rx_open |-> FALSE]]
    /\ layout_queue = <<>>
    /\ lpc = "recv"
    /\ hreq = [d \in AllDocs |-> [p \in Pages |-> "none"]]
    /\ permits = IntraThreads
    /\ oneshot = [d \in AllDocs |-> [p \in Pages |-> "empty"]]
    /\ seen_orch = [d \in AllDocs |-> FALSE]
    /\ seen_task = [d \in AllDocs |-> FALSE]
    /\ reset_after = [d \in AllDocs |-> FALSE]
    /\ flush_sent = [d \in AllDocs |-> 0]
    /\ queued_at_flush = [d \in AllDocs |-> {}]
    /\ failed = [d \in AllDocs |-> {}]
    /\ hist = NoHist

\* the title levels and the merger applied to bounded sequences of titles
InitTitle == TitleInit /\ CallsIdle /\ FunctionsIdle

NextTitle == MergeElements /\ UNCHANGED <<cvars, fvars>>

SpecTitle == InitTitle /\ [][NextTitle]_vars

\* the page assembly applied to every bounded page
InitPage ==
    MergeIdle /\ CallsIdle /\ PageInit /\ NmsIdle /\ IouIdle /\ CentroidIdle
    /\ LinesIdle /\ JobsIdle

NextPage ==
    \/ ParsePageText /\ UNCHANGED <<mvars, cvars, nvars, ivars, kvars, lvars, jvars>>
    \/ BuildPageElements /\ UNCHANGED <<mvars, cvars, nvars, ivars, kvars, lvars, jvars>>

SpecPage == InitPage /\ [][NextPage]_vars

InitElements ==
    MergeIdle /\ CallsIdle /\ ElementsInit /\ NmsIdle /\ IouIdle /\ CentroidIdle
    /\ LinesIdle /\ JobsIdle

SpecElements == InitElements /\ [][NextPage]_vars

\* nms applied to every bounded list of raw boxes
InitNms ==
    MergeIdle /\ CallsIdle /\ PageIdle /\ NmsInit /\ IouIdle /\ CentroidIdle
    /\ LinesIdle /\ JobsIdle

NextNms == RunNms /\ UNCHANGED <<mvars, cvars, pgvars, ivars, kvars, lvars, jvars>>

SpecNms == InitNms /\ [][NextNms]_vars

\* iou applied to every pair of bounded boxes
InitIou ==
    MergeIdle /\ CallsIdle /\ PageIdle /\ NmsIdle /\ IouInit /\ CentroidIdle
    /\ LinesIdle /\ JobsIdle

NextIou == ComputeIou /\ UNCHANGED <<mvars, cvars, pgvars, nvars, kvars, lvars, jvars>>

SpecIou == InitIou /\ [][NextIou]_vars

\* the centroid-to-level mapping applied to every bounded list of centroids
InitCentroid ==
    MergeIdle /\ CallsIdle /\ PageIdle /\ NmsIdle /\ IouIdle /\ CentroidInit
    /\ LinesIdle /\ JobsIdle

NextCentroid == MapCentroids /\ UNCHANGED <<mvars, cvars, pgvars, nvars, ivars, lvars, jvars>>

SpecCentroid == InitCentroid /\ [][NextCentroid]_vars

\* parse_text_lines applied to every bounded span sequence
InitLines ==
    MergeIdle /\ CallsIdle /\ PageIdle /\ NmsIdle /\ IouIdle /\ CentroidIdle
    /\ LinesInit /\ JobsIdle

NextLines ==
    ParseTextLines
    /\ UNCHANGED <<mvars, cvars, pgvars, nvars, ivars, kvars, jvars>>

SpecLines == InitLines /\ [][NextLines]_vars

\* the SSE jobs of the API server and the clients that cancel them
InitJobs ==
    MergeIdle /\ CallsIdle /\ PageIdle /\ NmsIdle /\ IouIdle /\ CentroidIdle
    /\ LinesIdle /\ JobsInit

JobsRest == <<mvars, cvars, pgvars, nvars, ivars, kvars, lvars>>

NextJobs ==
    \/ \E j \in JobIds : StartJob(j) /\ UNCHANGED JobsRest
    \/ \E j \in JobIds : ReadRequest(j) /\ UNCHANGED JobsRest
    \/ \E j \in JobIds : CheckBeforeStart(j) /\ UNCHANGED JobsRest
    \/ \E j \in JobIds : PageCount(j) /\ UNCHANGED JobsRest
    \/ \E j \in JobIds : Progress(j) /\ UNCHANGED JobsRest
    \/ \E j \in JobIds : ParseReturn(j) /\ UNCHANGED JobsRest
    \/ \E j \in JobIds : CompleteJob(j) /\ UNCHANGED JobsRest
    \/ \E j \in JobIds : CancelJob(j) /\ UNCHANGED JobsRest

SpecJobs == InitJobs /\ [][NextJobs]_vars

\* the handler and its task are scheduled; nothing makes a client send a
\* request or cancel a job
JobsFairness ==
    \A j \in JobIds :
        /\ WF_vars(ReadRequest(j) /\ UNCHANGED JobsRest)
        /\ WF_vars(CheckBeforeStart(j) /\ UNCHANGED JobsRest)
        /\ WF_vars(PageCount(j) /\ UNCHANGED JobsRest)
        /\ WF_vars(ParseReturn(j) /\ UNCHANGED JobsRest)
        /\ WF_vars(CompleteJob(j) /\ UNCHANGED JobsRest)

SpecJobsFair == SpecJobs /\ JobsFairness

\* The layout queue shared by two parse_document calls.  The calls start
\* where the native worker has delivered their pages (the pages of the
\* range 0..2 of A and of the range 0..1 of B), every page task is spawned
\* and both orchestrators wait in join_next(); from there the page tasks,
\* the cancellation of either call and the queue task run as in Spec.
QueueConfig(d) ==
    [load_ok |-> TRUE, page_range |-> IF d = "A" THEN <<0, 2>> ELSE <<0, 1>>,
     count_only |-> FALSE]

QueuePages(d) ==
    LET ps == PagesOfRange(QueueConfig(d).page_range)
    IN  {ps[i] : i \in 1..Len(ps)}

NativeLogOf(d) ==
    LET ps == PagesOfRange(QueueConfig(d).page_range)
    IN  <<<<"start", d, -1>>>> \o [i \in 1..Len(ps) |-> <<"page", d, ps[i]>>]

InitQueue ==
    /\ MergeIdle
    /\ FunctionsIdle
    /\ cancelled = [d \in AllDocs |-> FALSE]
    /\ config = [d \in AllDocs |-> QueueConfig(d)]
    /\ opc = [d \in AllDocs |-> "join"]
    /\ oresult = [d \in AllDocs |-> [status |-> "none", pages |-> <<>>, blocks |-> <<>>]]
    /\ parsed_pages = [d \in AllDocs |-> <<>>]
    /\ task = [d \in AllDocs |->
                 [p \in Pages |-> IF p \in QueuePages(d)
                                  THEN [NoTask EXCEPT !.pc = "spawned"]
                                  ELSE NoTask]]
    /\ native_queue = <<>>
    /\ nw = [doc |-> "none", pages |-> <<>>]
    /\ native_chan = [d \in AllDocs |->
                        [buf |-> <<>>, tx_open |-> FALSE, rx_open |-> TRUE]]
    /\ layout_queue = <<>>
    /\ lpc = "recv"
    /\ hreq = [d \in AllDocs |-> [p \in Pages |-> "none"]]
    /\ permits = IntraThreads
    /\ oneshot = [d \in AllDocs |-> [p \in Pages |-> "empty"]]
    /\ seen_orch = [d \in AllDocs |-> FALSE]
    /\ seen_task = [d \in AllDocs |-> FALSE]
    /\ reset_after = [d \in AllDocs |-> FALSE]
    /\ flush_sent = [d \in AllDocs |-> 0]
    /\ queued_at_flush = [d \in AllDocs |-> {}]
    /\ failed = [d \in AllDocs |-> {}]
    /\ hist = [NoHist EXCEPT !.enq = <<"A", "B">>,
                             !.log = NativeLogOf("A") \o NativeLogOf("B")]

NextQueue ==
    \/ \E d \in AllDocs : SetCancel(d)
    \/ \E d \in AllDocs, p \in Pages : JoinNext(d, p)
    \/ \E d \in AllDocs : FlushAndReturn(d)
    \/ \E d \in AllDocs, p \in Pages : TaskStart(d, p)
    \/ \E d \in AllDocs, p \in Pages : TaskSubmit(d, p)
    \/ \E d \in AllDocs, p \in Pages : TaskFinish(d, p)
    \/ LayoutRecv
    \/ LayoutDrain
    \/ \E d \in AllDocs, p \in Pages : HandleAcquire(d, p)
    \/ \E d \in AllDocs, p \in Pages : HandleFinish(d, p)

SpecQueue == InitQueue /\ [][NextQueue]_vars

\* The native queue shared by two calls, each a parse_document or a
\* get_page_count: the calls push their requests, the worker handles them,
\* the orchestrators receive the pages up to join_next() and may be
\* cancelled.
NextNative ==
    \/ \E d \in AllDocs : SetCancel(d)
    \/ \E d \in AllDocs : ParseDocument(d)
    \/ \E d \in AllDocs : GetPageCount(d)
    \/ \E d \in AllDocs : RecvPageCount(d)
    \/ \E d \in AllDocs : RecvNative(d)
    \/ \E d \in AllDocs : RecvNativeClosed(d)
    \/ \E d \in AllDocs : FlushAndReturn(d)
    \/ NativeRecv
    \/ NativePage

SpecNative == Init /\ [][NextNative]_vars


(***************************************************************************)
(* Properties of the pipeline (specification Spec).                        *)
(***************************************************************************)
Returned(d) == opc[d] = "returned"

C2_NoNewWorkAfterCancel ==
    [][\A d \in AllDocs :
         (cancelled[d] /\ cancelled'[d]) =>
            \A p \in Pages :
               /\ task'[d][p].pc = "spawned" => task[d][p].pc = "spawned"
               /\ (task[d][p].pc = "spawned"
                      /\ task'[d][p].pc \notin {"spawned", "aborted"})
                    => /\ task'[d][p].pc = "done"
                       /\ task'[d][p].res = "cancelled"
                       /\ layout_queue' = layout_queue
                       /\ hreq'[d][p] = "none"]_vars

\* a page task that started under cancellation: it is done with the
\* cancellation error and no layout request of it was ever submitted
C2_Witness ==
    \E d \in AllDocs, p \in Pages :
        /\ cancelled[d] /\ seen_task[d] /\ ~reset_after[d]
        /\ task[d][p].pc = "done" /\ task[d][p].res = "cancelled"
        /\ hreq[d][p] = "none" /\ oneshot[d][p] = "empty"
        /\ \A i \in 1..Len(layout_queue) : layout_queue[i] # Request(d, p)

\* C3: when parse_document observes cancellation it sends exactly one
\* Flush and returns an error, and every layout request that was queued at
\* that moment (enqueued, inference not started) never runs inference.
C3_FlushCancelsQueued ==
    \A d \in AllDocs :
        /\ oresult[d].status = "cancelled" => flush_sent[d] = 1
        /\ \A r \in queued_at_flush[d] : hreq[r[1]][r[2]] \notin {"inferring", "done"}

\* C4: with a page range whose end exceeds the page count, parse_document
\* returns an error and no page is parsed.
C4_RangeOutOfBoundsIsError ==
    \A d \in AllDocs :
        (Returned(d) /\ config[d].load_ok /\ config[d].page_range # NoRange
            /\ config[d].page_range[2] > NumPages)
        => /\ oresult[d].status \in {"err", "cancelled"}
           /\ \A p \in Pages : task[d][p].pc = "none"

\* C5: if the PDF bytes cannot be loaded, parse_document returns an error
\* rather than a ParsedDocument.
C5_LoadFailureIsError ==
    \A d \in AllDocs :
        (Returned(d) /\ ~config[d].load_ok)
            => oresult[d].status \in {"err", "cancelled"}

\* the set of the elements of a sequence
SeqRange(seq) == {seq[i] : i \in 1..Len(seq)}

\* C6: one page of the requested range failed (native extraction or layout
\* inference) and no checkpoint saw a cancellation: parse_document returns
\* a ParsedDocument whose pages are the requested range without the
\* failing page.
C6_PageFailureKeepsDocument ==
    \A d \in AllDocs :
        (/\ Returned(d) /\ ~seen_orch[d] /\ ~seen_task[d]
         /\ config[d].load_ok /\ ~RangeOutOfBounds(config[d].page_range)
         /\ Cardinality(failed[d]) = 1)
        => /\ oresult[d].status = "doc"
           /\ SeqRange(oresult[d].pages)
                = SeqRange(PagesOfRange(config[d].page_range)) \ failed[d]

\* C7: in every ParsedDocument the page ids of doc.pages strictly increase
\* and the page ids of consecutive doc.blocks never decrease.
C7_PageOrder ==
    \A d \in AllDocs :
        oresult[d].status = "doc" =>
            /\ \A i \in 1..(Len(oresult[d].pages) - 1) :
                  oresult[d].pages[i] < oresult[d].pages[i + 1]
            /\ \A i \in 1..(Len(oresult[d].blocks) - 1) :
                  oresult[d].blocks[i].pages_id[1]
                      <= oresult[d].blocks[i + 1].pages_id[1]

\* a document of two pages whose tasks were collected in descending page
\* order, with blocks of both pages
C7_Witness ==
    \E d \in AllDocs :
        /\ oresult[d].status = "doc"
        /\ Len(parsed_pages[d]) >= 2
        /\ parsed_pages[d][1].id > parsed_pages[d][2].id
        /\ \E i, j \in 1..Len(oresult[d].blocks) :
              oresult[d].blocks[i].pages_id # oresult[d].blocks[j].pages_id


(***************************************************************************)
(* Properties of the merger (specification SpecMerge).  The statements     *)
(* about emitted blocks are statements about the block list that           *)
(* merge_elements_into_blocks returns, hence about calls that return Ok;   *)
(* that the call returns Ok is stated in C8.                               *)
(***************************************************************************)
MergeDone == m_pc = "done"
MergeOk == m_pc = "done" /\ m_result.status = "ok"

\* the blocks (by position) into which the element at position i was consumed
BlocksWith(i) ==
    {b \in 1..Len(m_result.blocks) :
        \E n \in 1..Len(m_result.blocks[b].els) : m_result.blocks[b].els[n] = i}

\* the number of times the element at position i was consumed
TimesConsumed(i) ==
    Cardinality({<<b, n>> \in (1..Len(m_result.blocks)) \X (1..MaxElems + 1) :
                    /\ n <= Len(m_result.blocks[b].els)
                    /\ m_result.blocks[b].els[n] = i})

\* C8: element-to-block totality: merge_elements_into_blocks returns Ok,
\* every element that is not a Table is consumed exactly once, into
\* exactly one emitted block, and a Table is consumed into no block.
C8_ElementBlockTotality ==
    MergeDone =>
        /\ m_result.status = "ok"
        /\ \A i \in 1..Len(m_elements) :
              IF m_elements[i].kind = "Table"
              THEN TimesConsumed(i) = 0
              ELSE TimesConsumed(i) = 1

IsCaption(i) == m_elements[i].kind \in {"Caption", "FootNote"}

\* i starts a maximal run of Caption/FootNote elements
CaptionRunStart(i) ==
    /\ i \in 1..Len(m_elements)
    /\ IsCaption(i)
    /\ (i = 1 \/ ~IsCaption(i - 1))

\* the last position of the run of Caption/FootNote elements that holds i
RECURSIVE CaptionRunEnd(_)
CaptionRunEnd(i) ==
    IF i < Len(m_elements) /\ IsCaption(i + 1) THEN CaptionRunEnd(i + 1) ELSE i

\* the texts of the elements i..j joined by single spaces
RECURSIVE JoinTexts(_, _)
JoinTexts(i, j) ==
    IF i >= j THEN m_elements[i].text
    ELSE JoinTexts(i, j - 1) \o <<" ">> \o m_elements[j].text

\* the run of captions i..j-1 followed by the Image at j yields exactly
\* one Image block, with the joined caption, covering the boxes of the
\* caption and of the image, and the Image has no block of its own
CaptionImageBlock(i, j) ==
    /\ Cardinality({b \in 1..Len(m_result.blocks) :
            /\ m_result.blocks[b].kind = "Image"
            /\ \E n \in 1..Len(m_result.blocks[b].els) :
                  m_result.blocks[b].els[n] \in i..j}) = 1
    /\ \E b \in 1..Len(m_result.blocks) :
          /\ m_result.blocks[b].kind = "Image"
          /\ m_result.blocks[b].els = SeqFromTo(i, j)
          /\ m_result.blocks[b].caption = Some(JoinTexts(i, j - 1))
          /\ m_result.blocks[b].bbox
                = BBoxMerge(m_elements[i].bbox, m_elements[j].bbox)
          /\ BBoxContains(m_result.blocks[b].bbox, m_elements[i].bbox)
          /\ BBoxContains(m_result.blocks[b].bbox, m_elements[j].bbox)
          /\ BlocksWith(j) = {b}

\* C9 as stated: a Caption or FootNote element followed, possibly after
\* further Caption/FootNote elements, by an Image yields exactly one Image
\* block with the joined caption texts, whose bbox covers the caption's
\* and the image's boxes, the Image producing no block of its own.
C9_CaptionThenImage ==
    MergeOk =>
        \A i \in 1..Len(m_elements) :
            (CaptionRunStart(i) /\ CaptionRunEnd(i) < Len(m_elements)
                /\ m_elements[CaptionRunEnd(i) + 1].kind = "Image")
            => CaptionImageBlock(i, CaptionRunEnd(i) + 1)

\* C9 amended: the same for a Caption or FootNote element that does not
\* directly follow an Image element (which would take it as its own
\* caption); the bbox is the union of the first caption's box and the
\* image's box.
C9_CaptionThenImageAmended ==
    MergeOk =>
        \A i \in 1..Len(m_elements) :
            (CaptionRunStart(i) /\ CaptionRunEnd(i) < Len(m_elements)
                /\ m_elements[CaptionRunEnd(i) + 1].kind = "Image"
                /\ (i = 1 \/ m_elements[i - 1].kind # "Image"))
            => CaptionImageBlock(i, CaptionRunEnd(i) + 1)

\* a Caption and a FootNote followed by an Image were merged
C9_Witness ==
    /\ MergeOk
    /\ Len(m_elements) = 3
    /\ m_elements[1].kind = "Caption" /\ m_elements[2].kind = "FootNote"
    /\ m_elements[3].kind = "Image"
    /\ m_elements[1].bbox # m_elements[3].bbox
    /\ Len(m_result.blocks) = 1
    /\ m_result.blocks[1].caption = Some(<<"1", " ", "2">>)

\* the element at position j is processed on its own: it heads a block
OwnBlock(j) ==
    \E b \in 1..Len(m_result.blocks) :
        m_result.blocks[b].els[1] = j /\ BlocksWith(j) = {b}

\* C10 as stated: a Caption or FootNote element that is not followed
\* (directly, or after further Caption/FootNote elements) by an Image
\* becomes a TextBlock carrying its text: when the input ends there, and
\* when the next element is of any other kind, which is then not consumed
\* and produces its own block.
C10_OrphanCaption ==
    MergeOk =>
        \A i \in 1..Len(m_elements) :
            LET j == CaptionRunEnd(i) + 1
            IN  (IsCaption(i)
                    /\ (j > Len(m_elements) \/ m_elements[j].kind # "Image"))
                => /\ \E b \in 1..Len(m_result.blocks) :
                        /\ m_result.blocks[b].kind = "TextBlock"
                        /\ BlocksWith(i) = {b}
                   /\ j <= Len(m_elements) => OwnBlock(j)

\* C10 amended: a Caption or FootNote element that does not directly
\* follow an Image, taken with the Caption/FootNote elements that directly
\* follow it, when that run is not followed by an Image, becomes one
\* TextBlock carrying the run's texts joined by single spaces and the
\* first element's bbox: when the run ends the input, and when the element
\* after the run is of another kind, which is then not consumed and is
\* processed on its own (it produces its own block, unless it is a Table,
\* which produces none).
C10_OrphanCaptionAmended ==
    MergeOk =>
        \A i \in 1..Len(m_elements) :
            LET j == CaptionRunEnd(i) + 1
            IN  (CaptionRunStart(i)
                    /\ (i = 1 \/ m_elements[i - 1].kind # "Image")
                    /\ (j > Len(m_elements) \/ m_elements[j].kind # "Image"))
                => /\ \E b \in 1..Len(m_result.blocks) :
                        /\ m_result.blocks[b].kind = "TextBlock"
                        /\ m_result.blocks[b].text = JoinTexts(i, j - 1)
                        /\ m_result.blocks[b].els = SeqFromTo(i, j - 1)
                        /\ m_result.blocks[b].bbox = m_elements[i].bbox
                        /\ \A k \in i..(j - 1) : BlocksWith(k) = {b}
                   /\ j <= Len(m_elements) =>
                        IF m_elements[j].kind = "Table"
                        THEN BlocksWith(j) = {}
                        ELSE OwnBlock(j)

\* an orphan caption followed by a Text: two blocks
C10_Witness ==
    /\ MergeOk
    /\ Len(m_elements) = 2
    /\ m_elements[1].kind = "Caption" /\ m_elements[2].kind = "Text"
    /\ Len(m_result.blocks) = 2
    /\ m_result.blocks[1].kind = "TextBlock" /\ m_result.blocks[1].els = <<1>>
    /\ m_result.blocks[2].kind = "TextBlock" /\ m_result.blocks[2].els = <<2>>


\* the Image at position i has an Image block of its own that holds it and
\* the caption at i + 1, with that caption's text and the union bbox
ImageWithCaption(i) ==
    \E b \in 1..Len(m_result.blocks) :
        /\ m_result.blocks[b].kind = "Image"
        /\ m_result.blocks[b].els = <<i, i + 1>>
        /\ m_result.blocks[b].caption = Some(m_elements[i + 1].text)
        /\ m_result.blocks[b].bbox
              = BBoxMerge(m_elements[i].bbox, m_elements[i + 1].bbox)
        /\ BlocksWith(i) = {b} /\ BlocksWith(i + 1) = {b}

\* the Image at position i has an Image block of its own without caption
ImageAlone(i) ==
    \E b \in 1..Len(m_result.blocks) :
        /\ m_result.blocks[b].kind = "Image"
        /\ m_result.blocks[b].els = <<i>>
        /\ m_result.blocks[b].caption = None
        /\ m_result.blocks[b].bbox = m_elements[i].bbox
        /\ BlocksWith(i) = {b}

\* C11 as stated: an Image element looks exactly one element ahead: with a
\* Caption or FootNote next, one Image block with that caption and the
\* union bbox is emitted and exactly that element is consumed; otherwise an
\* Image block with caption None is emitted and the next element is left
\* to produce its own block.
C11_ImageLooksOneAhead ==
    MergeOk =>
        \A i \in 1..Len(m_elements) :
            m_elements[i].kind = "Image" =>
                IF i < Len(m_elements) /\ IsCaption(i + 1)
                THEN /\ ImageWithCaption(i)
                     /\ i + 2 <= Len(m_elements) => BlocksWith(i + 2) # BlocksWith(i)
                ELSE /\ ImageAlone(i)
                     /\ i < Len(m_elements) => OwnBlock(i + 1)

\* C11 amended: the same for an Image element that does not directly
\* follow a Caption or FootNote element (which would take the Image); the
\* element left in place is processed on its own and produces its own
\* block unless it is a Table, which produces none.
C11_ImageLooksOneAheadAmended ==
    MergeOk =>
        \A i \in 1..Len(m_elements) :
            (m_elements[i].kind = "Image" /\ (i = 1 \/ ~IsCaption(i - 1))) =>
                IF i < Len(m_elements) /\ IsCaption(i + 1)
                THEN /\ ImageWithCaption(i)
                     /\ i + 2 <= Len(m_elements) => BlocksWith(i + 2) # BlocksWith(i)
                ELSE /\ ImageAlone(i)
                     /\ i < Len(m_elements) =>
                            IF m_elements[i + 1].kind = "Table"
                            THEN BlocksWith(i + 1) = {}
                            ELSE OwnBlock(i + 1)

\* an Image took the FootNote after it, and the Caption after that became
\* a block of its own
C11_Witness ==
    /\ MergeOk
    /\ Len(m_elements) = 3
    /\ m_elements[1].kind = "Image" /\ m_elements[2].kind = "FootNote"
    /\ m_elements[3].kind = "Caption"
    /\ m_elements[1].bbox # m_elements[2].bbox
    /\ Len(m_result.blocks) = 2
    /\ m_result.blocks[1].caption = Some(<<"2">>)
    /\ m_result.blocks[2].kind = "TextBlock"


\* i starts a maximal run of elements of the given kind
RunStart(i, kind) ==
    /\ i \in 1..Len(m_elements)
    /\ m_elements[i].kind = kind
    /\ (i = 1 \/ m_elements[i - 1].kind # kind)

\* the last position of the run of elements of one kind that holds i
RECURSIVE RunEnd(_)
RunEnd(i) ==
    IF i < Len(m_elements) /\ m_elements[i + 1].kind = m_elements[i].kind
    THEN RunEnd(i + 1) ELSE i

\* the union of the boxes of the elements i..j
RECURSIVE UnionBoxes(_, _)
UnionBoxes(i, j) ==
    IF i >= j THEN m_elements[i].bbox
    ELSE BBoxMerge(UnionBoxes(i, j - 1), m_elements[j].bbox)

\* the run of ListItem elements i..j is exactly one List block
ListBlockOf(i, j) ==
    \E b \in 1..Len(m_result.blocks) :
        /\ m_result.blocks[b].kind = "ListBlock"
        /\ m_result.blocks[b].els = SeqFromTo(i, j)
        /\ m_result.blocks[b].items = [n \in 1..(j - i + 1) |-> m_elements[i + n - 1].text]
        /\ m_result.blocks[b].bbox = UnionBoxes(i, j)
        /\ \A k \in i..j : BlocksWith(k) = {b}

\* C12 as stated: a maximal run of consecutive ListItem elements yields
\* exactly one List block whose items are the elements' texts in order and
\* whose bbox is the union of their boxes; the first non-ListItem element
\* after the run is not consumed and produces its own block.
C12_ListRun ==
    MergeOk =>
        \A i \in 1..Len(m_elements) :
            RunStart(i, "ListItem") =>
                /\ ListBlockOf(i, RunEnd(i))
                /\ RunEnd(i) < Len(m_elements) => OwnBlock(RunEnd(i) + 1)

\* C12 amended: the same, where the first non-ListItem element after the
\* run is not consumed and is processed on its own: it heads the next
\* block, unless it is a Table, which produces no block.
C12_ListRunAmended ==
    MergeOk =>
        \A i \in 1..Len(m_elements) :
            RunStart(i, "ListItem") =>
                LET j == RunEnd(i)
                IN  /\ ListBlockOf(i, j)
                    /\ j < Len(m_elements) =>
                          IF m_elements[j + 1].kind = "Table"
                          THEN BlocksWith(j + 1) = {}
                          ELSE OwnBlock(j + 1)

\* two ListItems with different boxes followed by a Text: a List block of
\* two items and a TextBlock
C12_Witness ==
    /\ MergeOk
    /\ Len(m_elements) = 3
    /\ m_elements[1].kind = "ListItem" /\ m_elements[2].kind = "ListItem"
    /\ m_elements[3].kind = "Text"
    /\ m_elements[1].bbox # m_elements[2].bbox
    /\ Len(m_result.blocks) = 2
    /\ m_result.blocks[1].items = <<<<"1">>, <<"2">>>>
    /\ m_result.blocks[2].kind = "TextBlock"

Adjacent(a, b) == a.x0 = b.x0 /\ a.x1 = b.x1 /\ b.y0 - a.y1 = 1

C14_AdjacentTextMerged ==
    MergeOk =>
        \A i \in 1..(Len(m_elements) - 1) :
            (/\ m_elements[i].kind = "Text" /\ m_elements[i + 1].kind = "Text"
             /\ m_elements[i].page_id = m_elements[i + 1].page_id
             /\ Adjacent(m_elements[i].bbox, m_elements[i + 1].bbox))
            => \E b \in 1..Len(m_result.blocks) :
                  /\ m_result.blocks[b].kind = "TextBlock"
                  /\ BlocksWith(i) = {b} /\ BlocksWith(i + 1) = {b}
                  /\ \E n \in 1..Len(m_result.blocks[b].text) :
                        <<m_result.blocks[b].text[n]>> = m_elements[i].text
                  /\ \E n \in 1..Len(m_result.blocks[b].text) :
                        <<m_result.blocks[b].text[n]>> = m_elements[i + 1].text

\* C15: a maximal run of consecutive Header elements is merged into exactly
\* one Header block, likewise a run of Footer elements into exactly one
\* Footer block, and merge_elements_into_blocks returns normally on such
\* runs (no panic, no error).
C15_HeaderFooterRun ==
    MergeDone =>
        \A i \in 1..Len(m_elements) :
            (RunStart(i, "Header") \/ RunStart(i, "Footer")) =>
                /\ m_result.status = "ok"
                /\ \E b \in 1..Len(m_result.blocks) :
                      /\ m_result.blocks[b].kind = m_elements[i].kind
                      /\ m_result.blocks[b].els = SeqFromTo(i, RunEnd(i))
                      /\ \A k \in i..RunEnd(i) : BlocksWith(k) = {b}


(***************************************************************************)
(* Properties of the title levels (specification SpecTitle).               *)
(***************************************************************************)
\* the level the title-level map stores for an element, 0 without entry
LevelInMap(el) ==
    IF <<el.page_id, el.id>> \in DOMAIN m_title_level
    THEN m_title_level[<<el.page_id, el.id>>]
    ELSE 0

\* C16: every Title or Subtitle element yields a Title block whose level is
\* the value stored for (page_id, element_id) in the title-level map
\* computed by title_levels_kmeans, and 0 when the map has no entry.
C16_TitleLevelFromMap ==
    MergeOk =>
        \A i \in 1..Len(m_elements) :
            m_elements[i].kind \in {"Title", "Subtitle"} =>
                \E b \in 1..Len(m_result.blocks) :
                    /\ m_result.blocks[b].kind = "Title"
                    /\ m_result.blocks[b].els = <<i>>
                    /\ m_result.blocks[b].level = LevelInMap(m_elements[i])

(***************************************************************************)
(* Properties of the page assembly (specification SpecPage).               *)
(***************************************************************************)
PageDone == p_pc = "done"

StripIds(elements) == [i \in 1..Len(elements) |-> [elements[i] EXCEPT !.id = 0]]

\* C17: the elements built from a page's lines and layout regions do not
\* depend on the order of the regions: for every permutation of the region
\* list the elements are the same up to their ids, ties included.
C17_RegionOrderIndependent ==
    PageDone => StripIds(p_elements) = StripIds(p_elements_perm)

RegionIndices == 1..Len(p_layout)

MaxIntersectionOf(line) ==
    CHOOSE v \in {intersection(p_layout[r].bbox, line.bbox) : r \in RegionIndices} :
        \A r \in RegionIndices : intersection(p_layout[r].bbox, line.bbox) <= v

Distance4Of(r, line) ==
    distance4(p_layout[r].bbox, line.bbox, LAYOUT_DISTANCE_X_WEIGHT,
              LAYOUT_DISTANCE_Y_WEIGHT)

MinDistance4Of(line) ==
    CHOOSE v \in {Distance4Of(r, line) : r \in RegionIndices} :
        \A r \in RegionIndices : Distance4Of(r, line) >= v

\* two regions tie on the selection of the line: on the largest
\* intersection when it is over half the line's area, otherwise on the
\* smallest weighted distance when it is under the assignment distance
TieOnLine(line) ==
    /\ p_layout # <<>>
    /\ IF 10 * MaxIntersectionOf(line) > MIN_INTERSECTION_LAYOUT * BBoxArea(line.bbox)
       THEN \E r1, r2 \in RegionIndices :
               /\ r1 # r2
               /\ intersection(p_layout[r1].bbox, line.bbox) = MaxIntersectionOf(line)
               /\ intersection(p_layout[r2].bbox, line.bbox) = MaxIntersectionOf(line)
       ELSE /\ MinDistance4Of(line) < 4 * MAXIMUM_ASSIGNMENT_DISTANCE
            /\ \E r1, r2 \in RegionIndices :
                  /\ r1 # r2
                  /\ Distance4Of(r1, line) = MinDistance4Of(line)
                  /\ Distance4Of(r2, line) = MinDistance4Of(line)

NoTies == \A i \in 1..Len(p_lines) : ~TieOnLine(p_lines[i])

\* the regions that no line selects
RegionsWithoutLine ==
    {r \in RegionIndices :
        \A i \in 1..Len(p_lines) : matched_block(p_layout, p_lines[i]) # r}

\* C17, amended: the elements are the same up to their ids for every
\* permutation of the regions when no two regions tie on the selection of
\* a line and at most one region is left without a line.
C17_RegionOrderIndependentAmended ==
    (PageDone /\ NoTies /\ Cardinality(RegionsWithoutLine) <= 1)
        => StripIds(p_elements) = StripIds(p_elements_perm)

\* C17 witness: two regions taken in the other order, a line that selects
\* one of them without a tie, and the other region left without a line.
C17_Witness ==
    /\ PageDone
    /\ Len(p_layout) = 2
    /\ p_perm[1] = 2
    /\ p_lines # <<>>
    /\ NoTies
    /\ Cardinality(RegionsWithoutLine) = 1
    /\ Len(p_elements) = 2
    /\ StripIds(p_elements) = StripIds(p_elements_perm)

TextRegionArea ==
    SeqSum([i \in 1..Len(p_layout) |->
               IF is_text_block(p_layout[i]) THEN BBoxArea(p_layout[i].bbox) ELSE 0])

NativeLineArea ==
    SeqSum([i \in 1..Len(p_native_lines) |-> BBoxArea(p_native_lines[i].bbox)])

TextParsed == p_pc \in {"elements", "done"}

\* C18: page_needs_ocr is true exactly when the area of the textual layout
\* regions sums to zero or the area of the native lines is strictly under
\* half of it (false at exactly one half); when it is true and OCR
\* succeeds, the page's lines are the OCR lines and none of the native ones.
C18_OcrTrigger ==
    TextParsed =>
        /\ p_need_ocr <=> (TextRegionArea = 0 \/ 2 * NativeLineArea < TextRegionArea)
        /\ (p_need_ocr /\ p_ocr.ok) =>
              /\ Len(p_lines) = Len(p_ocr.lines)
              /\ \A i \in 1..Len(p_lines) :
                    /\ p_lines[i].text = p_ocr.lines[i].text
                    /\ p_lines[i].bbox = p_ocr.lines[i].bbox
                    /\ \A j \in 1..Len(p_native_lines) : p_lines[i] # p_native_lines[j]

\* C18 witness: a page with textual regions and native lines that cover
\* less than half of them, whose lines are replaced by a successful OCR.
C18_Witness ==
    /\ TextParsed
    /\ TextRegionArea > 0
    /\ p_native_lines # <<>>
    /\ 2 * NativeLineArea < TextRegionArea
    /\ p_need_ocr
    /\ p_ocr.ok
    /\ p_ocr.lines # <<>>
    /\ Len(p_lines) = Len(p_ocr.lines)

(***************************************************************************)
(* Properties of nms (specification SpecNms).                              *)
(***************************************************************************)
NmsDone == n_pc = "done"

OverThreshold(a, b) == QuotGt(relaxed_iou(a.bbox, b.bbox), n_threshold, 10)

Survives(box) == \E k \in 1..Len(n_out) : n_out[k] = box

\* prev is before box once the boxes are sorted: its probability is
\* higher, or equal with prev earlier in the input
SortedBefore(prev, box) ==
    \/ prev.proba > box.proba
    \/ prev.proba = box.proba /\ prev.id < box.id

\* C19: after nms(boxes, t) the survivors are input boxes in descending
\* order of probability, no two of them have relaxed_iou > t, a box is
\* dropped only if a box kept before it, of higher or equal probability,
\* overlaps it with relaxed_iou > t whatever the labels, and the
\* highest-probability input box (the first of them in the input) survives.
C19_NmsSurvivors ==
    NmsDone =>
        /\ \A k \in 1..Len(n_out) : \E i \in 1..Len(n_boxes) : n_out[k] = n_boxes[i]
        /\ \A j, k \in 1..Len(n_out) :
              j < k => /\ n_out[j].proba >= n_out[k].proba
                       /\ n_out[j].id # n_out[k].id
                       /\ ~OverThreshold(n_out[j], n_out[k])
                       /\ ~OverThreshold(n_out[k], n_out[j])
        /\ \A i \in 1..Len(n_boxes) :
              ~Survives(n_boxes[i]) =>
                  \E k \in 1..Len(n_out) :
                      /\ SortedBefore(n_out[k], n_boxes[i])
                      /\ OverThreshold(n_out[k], n_boxes[i])
        /\ \A i \in 1..Len(n_boxes) :
              (\A j \in 1..Len(n_boxes) :
                  j # i => SortedBefore(n_boxes[i], n_boxes[j]))
                => Survives(n_boxes[i])

\* C19 witness: three boxes of which one is dropped because of a kept box
\* of another label, and two survive.
C19_Witness ==
    /\ NmsDone
    /\ Len(n_boxes) = 3
    /\ Len(n_out) = 2
    /\ \E i \in 1..3 :
          /\ ~Survives(n_boxes[i])
          /\ \A k \in 1..2 :
                OverThreshold(n_out[k], n_boxes[i]) => n_out[k].label # n_boxes[i].label

(***************************************************************************)
(* Properties of iou (specification SpecIou).                              *)
(***************************************************************************)
IouDone == i_pc = "done"

\* the two boxes have no interior point in common: they are apart or
\* share no more than an edge or a corner
DisjointOrEdge(a, b) ==
    \/ a.x1 <= b.x0
    \/ b.x1 <= a.x0
    \/ a.y1 <= b.y0
    \/ b.y1 <= a.y0

\* C20: for all boxes a, b with x0 <= x1 and y0 <= y1, those of area zero
\* included, iou(a, b) = iou(b, a), 0 <= iou(a, b) <= 1, iou(a, a) = 1, and
\* iou(a, b) = 0 when a and b are disjoint or only share an edge.
C20_IouSymmetryAndBounds ==
    IouDone =>
        /\ QuotEq(i_ab, i_ba)
        /\ ~IsNaN(i_ab) /\ ~QuotLt(i_ab, 0, 1) /\ ~QuotGt(i_ab, 1, 1)
        /\ QuotEq(i_aa, Quot(1, 1))
        /\ DisjointOrEdge(i_a, i_b) => QuotEq(i_ab, Quot(0, 1))

(***************************************************************************)
(* Properties of the centroid-to-level mapping (specification              *)
(* SpecCentroid).                                                          *)
(***************************************************************************)
CentroidsDone == k_pc = "done"

\* the orders of the centroids by descending height
DescendingOrders ==
    {o \in Permutations(1..Len(k_centroids)) :
        \A n \in 2..Len(k_centroids) : k_centroids[o[n - 1]] >= k_centroids[o[n]]}

\* C21: with the centroids sorted by descending height the tallest gets
\* level 1, and each following one gets the level of the one before it if
\* its value is at least 0.7 times that one's value and that level plus
\* one otherwise; hence the levels are consecutive integers from 1 on and
\* never decrease as the height decreases.
C21_CentroidLevels ==
    CentroidsDone =>
        /\ DOMAIN k_mapping = 1..Len(k_centroids)
        /\ \A o \in DescendingOrders :
              /\ k_mapping[o[1]] = 1
              /\ \A n \in 2..Len(k_centroids) :
                    k_mapping[o[n]] =
                        IF 10 * k_centroids[o[n]] >= 7 * k_centroids[o[n - 1]]
                        THEN k_mapping[o[n - 1]]
                        ELSE k_mapping[o[n - 1]] + 1
        /\ \E top \in 1..Len(k_centroids) :
              {k_mapping[c] : c \in 1..Len(k_centroids)} = 1..top
        /\ \A c, d \in 1..Len(k_centroids) :
              k_centroids[c] >= k_centroids[d] => k_mapping[c] <= k_mapping[d]

\* C21 witness: the centroids 24, 18 and 8, given out of order, get the
\* levels 1, 1 and 2.
C21_Witness ==
    /\ CentroidsDone
    /\ k_centroids = <<8, 24, 18>>
    /\ k_mapping = <<2, 1, 1>>


(***************************************************************************)
(* Properties of the layout queue (specification SpecQueue).               *)
(***************************************************************************)
Requests == AllDocs \X Pages

InQueue(r) ==
    \E i \in 1..Len(layout_queue) :
        layout_queue[i].type = "Request" /\ layout_queue[i].doc = r[1]
        /\ layout_queue[i].page = r[2]

Inferring == {r \in Requests : hreq[r[1]][r[2]] = "inferring"}

\* a request buffered when a Flush was received never starts inference and
\* never yields a page; once the drain is over it has left the channel and
\* its response channel holds the cancellation error, unless its receiver
\* was dropped
BacklogCancelled ==
    \A r \in hist.backlog :
        /\ hreq[r[1]][r[2]] = "none"
        /\ task[r[1]][r[2]].res # "ok"
        /\ lpc = "recv" =>
             /\ ~InQueue(r)
             /\ \/ oneshot[r[1]][r[2]] = "cancel_err"
                \/ task[r[1]][r[2]].pc = "aborted"

\* after a Flush the queue task is back in its receive loop and takes the
\* next message
ServesAfterFlush ==
    (hist.flushes > 0 /\ lpc = "recv" /\ layout_queue # <<>>) => ENABLED LayoutRecv

\* a Flush met while draining is dropped: no second drain, no response, no
\* handler
DrainIgnoresFlush ==
    (/\ lpc = "drain"
     /\ layout_queue # <<>>
     /\ Head(layout_queue).type = "Flush"
     /\ layout_queue' = Tail(layout_queue))
    => (lpc' = "drain" /\ hist' = hist /\ oneshot' = oneshot /\ hreq' = hreq)

\* C22: when the layout queue task processes a Flush, every Request still
\* buffered in the channel is removed without starting inference and gets a
\* cancellation error on its response channel, further Flush messages in
\* the backlog are ignored, and the task keeps serving later requests.
C22_FlushDrainsBacklog ==
    [](BacklogCancelled /\ ServesAfterFlush) /\ [][DrainIgnoresFlush]_vars

\* C22 witness: a drain is over, a buffered request of the other call got
\* the cancellation error, and a request pushed after the Flush was served
\* with a layout.
C22_Witness ==
    /\ lpc = "recv"
    /\ \E r \in hist.backlog : oneshot[r[1]][r[2]] = "cancel_err"
    /\ \E r \in hist.later :
          hreq[r[1]][r[2]] = "done" /\ oneshot[r[1]][r[2]] = "layout"

\* C24: the number of layout requests executing inference never exceeds the
\* intra-op thread count, whatever the number of calls sharing the queue,
\* and every permit not held by a running inference is free: a permit is
\* back as soon as its inference ended, with a layout or with an error.
C24_InferenceBound ==
    /\ Cardinality(Inferring) <= IntraThreads
    /\ permits = IntraThreads - Cardinality(Inferring)

\* C24 witness: all permits are held by running inferences of two calls
\* after an earlier inference has failed and given its permit back.
C24_Witness ==
    /\ Cardinality(Inferring) = IntraThreads
    /\ {r[1] : r \in Inferring} = AllDocs
    /\ \E r \in Requests : hreq[r[1]][r[2]] = "done" /\ r[2] \in failed[r[1]]

\* a request whose inference was running when a Flush was received is not
\* touched by the drain: it is running or has completed, its handler can
\* always finish, and a receiver that still waits gets the result
InflightCompletes ==
    \A r \in hist.inflight :
        /\ hreq[r[1]][r[2]] \in {"inferring", "done"}
        /\ oneshot[r[1]][r[2]] # "cancel_err"
        /\ hreq[r[1]][r[2]] = "inferring" => ENABLED HandleFinish(r[1], r[2])
        /\ (hreq[r[1]][r[2]] = "done" /\ task[r[1]][r[2]].pc = "await")
             => oneshot[r[1]][r[2]] \in {"layout", "infer_err"}

\* no handler ends otherwise than by finishing
NoHandlerPanics ==
    \A r \in Requests : hreq[r[1]][r[2]] \in {"none", "waiting", "inferring", "done"}

\* C23: a request whose inference is in flight when a Flush is processed
\* runs to completion; when its receiver has been dropped the failed send
\* is ignored: the handler does not panic and the queue task keeps
\* receiving.
C23_InflightRunsToCompletion ==
    /\ InflightCompletes
    /\ NoHandlerPanics
    /\ (lpc = "recv" /\ layout_queue # <<>>) => ENABLED LayoutRecv

\* C23 witness: an inference in flight at a Flush has completed after its
\* receiver was dropped, the response was lost, and a request pushed after
\* the Flush was served with a layout.
C23_Witness ==
    /\ \E r \in hist.inflight :
          /\ hreq[r[1]][r[2]] = "done"
          /\ task[r[1]][r[2]].pc = "aborted"
          /\ oneshot[r[1]][r[2]] = "empty"
    /\ \E r \in hist.later :
          hreq[r[1]][r[2]] = "done" /\ oneshot[r[1]][r[2]] = "layout"

(***************************************************************************)
(* Properties of the native queue (specification SpecNative).              *)
(***************************************************************************)
\* the calls whose requests the worker has taken, in the order it took them
RECURSIVE StartsOf(_)
StartsOf(log) ==
    IF log = <<>> THEN <<>>
    ELSE IF Head(log)[1] = "start" THEN <<Head(log)[2]>> \o StartsOf(Tail(log))
    ELSE StartsOf(Tail(log))

\* the request the worker was handling when it made entry i of the log
RECURSIVE CurrentAt(_, _)
CurrentAt(log, i) ==
    IF i = 0 THEN "none"
    ELSE IF log[i][1] = "start" THEN log[i][2]
    ELSE CurrentAt(log, i - 1)

\* C25: the native requests of all parse_document and get_page_count calls
\* are handled by the one worker, one at a time and in the order they were
\* enqueued: the requests taken so far followed by the requests still
\* queued are the requests in enqueue order, and every page or count the
\* worker sends belongs to the request it took last, so that the pages of
\* two documents are never interleaved.
C25_NativeFifo ==
    /\ hist.enq = StartsOf(hist.log) \o native_queue
    /\ \A i \in 1..Len(hist.log) :
          hist.log[i][1] # "start" => hist.log[i][2] = CurrentAt(hist.log, i - 1)
    /\ nw.doc \in AllDocs =>
          /\ StartsOf(hist.log) # <<>>
          /\ nw.doc = StartsOf(hist.log)[Len(StartsOf(hist.log))]

\* C25 witness: two calls have pushed their requests; the worker took the
\* first, sent all its pages, then took the second and sent its first
\* page or its count.
C25_Witness ==
    \E d1, d2 \in AllDocs :
        /\ d1 # d2
        /\ hist.enq = <<d1, d2>>
        /\ Len(hist.log) = NumPages + 3
        /\ hist.log[1] = <<"start", d1, -1>>
        /\ \A p \in Pages : hist.log[p + 2] = <<"page", d1, p>>
        /\ hist.log[NumPages + 2] = <<"start", d2, -1>>
        /\ hist.log[NumPages + 3][1] \in {"page", "count"}
        /\ hist.log[NumPages + 3][2] = d2

(***************************************************************************)
(* Properties of the page elements (specification SpecElements).           *)
(***************************************************************************)
\* the elements whose text holds the text of line i (a line's text is one
\* token of its own)
ElementsOfLine(i) ==
    {e \in 1..Len(p_elements) :
        \E k \in 1..Len(p_elements[e].text) : p_elements[e].text[k] = p_lines[i].text[1]}

\* the regions of the elements whose text holds the text of line i
RegionsOfLine(i) ==
    {r \in RegionIndices :
        \E e \in ElementsOfLine(i) : p_elements[e].layout_block_id = p_layout[r].id}

\* four times the distance of the claim: the squared distance of the
\* centres, weighted 5 along x and 1 along y
ClaimDistance4(r, line) ==
    LET a == p_layout[r].bbox
        b == line.bbox
    IN  5 * ((a.x0 + a.x1) - (b.x0 + b.x1)) * ((a.x0 + a.x1) - (b.x0 + b.x1))
        + ((a.y0 + a.y1) - (b.y0 + b.y1)) * ((a.y0 + a.y1) - (b.y0 + b.y1))

LargestIntersection(line) ==
    CHOOSE v \in {intersection(p_layout[r].bbox, line.bbox) : r \in RegionIndices} :
        \A r \in RegionIndices : intersection(p_layout[r].bbox, line.bbox) <= v

SmallestClaimDistance4(line) ==
    CHOOSE v \in {ClaimDistance4(r, line) : r \in RegionIndices} :
        \A r \in RegionIndices : ClaimDistance4(r, line) >= v

ByIntersection(line) ==
    p_layout # <<>> /\ 2 * LargestIntersection(line) > BBoxArea(line.bbox)

ByDistance(line) ==
    /\ p_layout # <<>>
    /\ ~ByIntersection(line)
    /\ SmallestClaimDistance4(line) < 4 * 20

\* C26: the region of a line is the one with the largest intersection when
\* that intersection is strictly more than half of the line's area;
\* otherwise the one with the smallest weighted distance (5 along x, 1
\* along y) when that distance is strictly below 20; otherwise none, and
\* the line contributes to no element.
C26_LineRegionChoice ==
    PageDone =>
        \A i \in 1..Len(p_lines) :
            LET line == p_lines[i]
            IN  IF ByIntersection(line)
                THEN \E r \in RegionIndices :
                        /\ RegionsOfLine(i) = {r}
                        /\ intersection(p_layout[r].bbox, line.bbox)
                              = LargestIntersection(line)
                ELSE IF ByDistance(line)
                THEN \E r \in RegionIndices :
                        /\ RegionsOfLine(i) = {r}
                        /\ ClaimDistance4(r, line) = SmallestClaimDistance4(line)
                ELSE ElementsOfLine(i) = {}

\* C26 witness: a page with regions where one line is given to a region by
\* distance while another region lies at exactly the distance 20 of it,
\* and another line is left out.
C26_Witness ==
    /\ PageDone
    /\ \E i, j \in 1..Len(p_lines) :
          /\ ByDistance(p_lines[i])
          /\ ElementsOfLine(i) # {}
          /\ \E r \in RegionIndices : ClaimDistance4(r, p_lines[i]) = 4 * 20
          /\ ~ByIntersection(p_lines[j])
          /\ ~ByDistance(p_lines[j])
          /\ ElementsOfLine(j) = {}
    /\ p_layout # <<>>

\* the lines given to the region of element e, in line order
AssignedLines(e) ==
    SelectSeq([i \in 1..Len(p_lines) |-> i],
              LAMBDA i : LET b == matched_block(p_layout, p_lines[i])
                         IN  b # 0 /\ p_layout[b].id = p_elements[e].layout_block_id)

\* the texts of the lines of the index sequence, joined by single spaces
RECURSIVE JoinLines(_)
JoinLines(indices) ==
    IF indices = <<>> THEN <<>>
    ELSE IF Len(indices) = 1 THEN p_lines[indices[1]].text
    ELSE p_lines[indices[1]].text \o <<" ">> \o JoinLines(Tail(indices))

\* C27: after merge_lines_layout the text of every element is the texts of
\* its assigned lines, in line order, joined by single spaces, each line
\* once; and no element is shared by two regions: an element holds the
\* text of a line only if the line was given to the element's region.
NoSharedElement ==
    \A i \in 1..Len(p_lines) :
        \A e \in ElementsOfLine(i) :
            LET b == matched_block(p_layout, p_lines[i])
            IN  b # 0 /\ p_layout[b].id = p_elements[e].layout_block_id

C27_ElementText ==
    PageDone =>
        /\ \A e \in 1..Len(p_elements) :
               p_elements[e].text = JoinLines(AssignedLines(e))
        /\ NoSharedElement

\* C28: within one page the ids of the elements are pairwise distinct,
\* over headers, body, footers and the elements of unmatched regions, so
\* that (page_id, element_id) identifies one element.
C28_ElementIdsDistinct ==
    PageDone =>
        \A e1, e2 \in 1..Len(p_elements) :
            (/\ p_elements[e1].page_id = p_elements[e2].page_id
             /\ p_elements[e1].id = p_elements[e2].id) => e1 = e2

\* the rank of an element in the order headers, body, footers
ListRank(el) ==
    IF el.kind = "Header" THEN 0 ELSE IF el.kind = "Footer" THEN 2 ELSE 1

\* C29: in the final element list of a page, after the unmatched regions
\* were inserted, every element of a Page-header region precedes every
\* body element and every element of a Page-footer region follows every
\* body element: the order is headers, body, footers.
C29_HeadersBodyFooters ==
    PageDone =>
        \A e1, e2 \in 1..Len(p_elements) :
            e1 < e2 => ListRank(p_elements[e1]) <= ListRank(p_elements[e2])

\* the elements made from region r
ElementsOfRegion(r) ==
    {e \in 1..Len(p_elements) : p_elements[e].layout_block_id = p_layout[r].id}

\* the element list as it was when the element of the unmatched region r
\* had just been inserted: the final list without the elements of the
\* unmatched regions that come after r in the layout
ListWhenInserted(r) ==
    SelectSeq(p_elements,
              LAMBDA el : ~\E r2 \in RegionsWithoutLine :
                              r2 > r /\ p_layout[r2].id = el.layout_block_id)

\* the element of the unmatched region r stands alone, or immediately
\* before an element that was nearest to the region among the others
InsertedAtNearest(r) ==
    LET list == ListWhenInserted(r)
        k == CHOOSE i \in 1..Len(list) : list[i].layout_block_id = p_layout[r].id
        d(i) == distance4(list[i].bbox, p_layout[r].bbox, LAYOUT_DISTANCE_X_WEIGHT,
                          LAYOUT_DISTANCE_Y_WEIGHT)
    IN  IF Len(list) = 1 THEN k = 1
        ELSE /\ k < Len(list)
             /\ \A i \in 1..Len(list) : i # k => d(k + 1) <= d(i)

\* C30: after build_page_elements every region of the page has exactly one
\* element (by layout_block_id) and every element has a region; a region
\* matched by no line has a text-less element, inserted at the position of
\* the element nearest to it, or appended when there was no element.
C30_OneElementPerRegion ==
    PageDone =>
        /\ \A r \in RegionIndices : Cardinality(ElementsOfRegion(r)) = 1
        /\ \A e \in 1..Len(p_elements) :
               \E r \in RegionIndices : e \in ElementsOfRegion(r)
        /\ \A r \in RegionIndices :
               IF r \in RegionsWithoutLine
               THEN /\ \A e \in ElementsOfRegion(r) : p_elements[e].text = <<>>
                    /\ InsertedAtNearest(r)
               ELSE \A e \in ElementsOfRegion(r) : p_elements[e].text # <<>>

\* C30 witness: a page with a region that holds a line and a region that
\* no line selects, whose text-less element stands before the element of
\* the first.
C30_Witness ==
    /\ PageDone
    /\ Len(p_elements) = 2
    /\ p_elements[1].text = <<>>
    /\ p_elements[2].text # <<>>
    /\ Cardinality(RegionsWithoutLine) = 1

(***************************************************************************)
(* Further properties of the page assembly (specification SpecPage).       *)
(***************************************************************************)
\* the page needed OCR and parse_image_ocr returned an error
OcrFailed == TextParsed /\ p_need_ocr /\ ~p_ocr.ok

\* C31: when the page needs OCR and the OCR backend fails, the page is
\* still produced: its lines are the native lines, its need_ocr flag is
\* true, and its elements are built from the native lines.
C31_OcrFailureKeepsNativeLines ==
    OcrFailed =>
        /\ p_lines = p_native_lines
        /\ p_need_ocr
        /\ p_pc \in {"elements", "done"}
        /\ PageDone => p_elements = build_page_elements(p_layout, p_native_lines, 0)

\* C31 witness: a page with a native line that covers too little of its
\* text regions, whose OCR failed, and whose elements hold the native line.
C31_Witness ==
    /\ OcrFailed
    /\ PageDone
    /\ p_native_lines # <<>>
    /\ \E e \in 1..Len(p_elements) : p_elements[e].text # <<>>

(***************************************************************************)
(* Block ids of the merger (specification SpecMerge).                      *)
(***************************************************************************)
\* the elements that did not start a block of their own: skipped (Table) or
\* consumed into the block of an earlier or later element
NotFirstOfBlock ==
    {i \in 1..Len(m_elements) :
        \A b \in 1..Len(m_result.blocks) : m_result.blocks[b].els[1] # i}

\* C32: the blocks merge_elements_into_blocks returns carry the ids
\* 0, 1, 2, ... in emission order: the block at position b has id b - 1, so
\* the ids are strictly increasing, consecutive and unique, whatever
\* elements were skipped or consumed.
C32_BlockIdsConsecutive ==
    MergeOk =>
        \A b \in 1..Len(m_result.blocks) : m_result.blocks[b].id = b - 1

\* C32 witness: a run that emitted two blocks or more although an element
\* before the last block was skipped or consumed into another block.
C32_Witness ==
    /\ MergeOk
    /\ Len(m_result.blocks) >= 2
    /\ \E i \in NotFirstOfBlock :
          i < m_result.blocks[Len(m_result.blocks)].els[1]
    /\ \E i \in 1..Len(m_elements) : m_elements[i].kind = "Table"

(***************************************************************************)
(* The title-level map of a document (specification SpecTitle).            *)
(***************************************************************************)
\* the Title and Subtitle elements of the document
DocumentTitles == FilterTitles(m_elements)

\* C33: with at most TITLE_BUCKETS titles the title-level map is empty and
\* every Title block of the document has level 0; with more titles the map
\* has, for every title, an entry with a level of at least 1.
C33_TitleLevelMap ==
    MergeDone =>
        /\ Len(DocumentTitles) <= TITLE_BUCKETS =>
              /\ m_title_level = EmptyMap
              /\ \A b \in 1..Len(m_result.blocks) :
                    m_result.blocks[b].kind = "Title" =>
                        m_result.blocks[b].level = 0
        /\ Len(DocumentTitles) > TITLE_BUCKETS =>
              \A n \in 1..Len(DocumentTitles) :
                  /\ <<DocumentTitles[n].page_id, DocumentTitles[n].id>>
                        \in DOMAIN m_title_level
                  /\ LevelInMap(DocumentTitles[n]) >= 1

\* C33 witness: a document with TITLE_BUCKETS + 1 titles of two heights
\* whose map holds a level 1 and a deeper level.
C33_Witness ==
    /\ MergeDone
    /\ Len(DocumentTitles) = TITLE_BUCKETS + 1
    /\ \E n \in 1..Len(DocumentTitles) : LevelInMap(DocumentTitles[n]) = 1
    /\ \E n \in 1..Len(DocumentTitles) : LevelInMap(DocumentTitles[n]) >= 2

(***************************************************************************)
(* Properties of the text lines (specification SpecLines).                 *)
(***************************************************************************)
LinesDone == l_pc = "done"

\* the spans of the lines, line after line
RECURSIVE FlattenSpans(_)
FlattenSpans(lines) ==
    IF lines = <<>> THEN <<>>
    ELSE Head(lines).spans \o FlattenSpans(Tail(lines))

\* the position in the span sequence of the first span of line i
LineFirst(i) == 1 + SeqSum([j \in 1..(i - 1) |-> Len(l_lines[j].spans)])

\* the line that holds the span at position k
LineOf(k) ==
    CHOOSE i \in 1..Len(l_lines) :
        LineFirst(i) <= k /\ k < LineFirst(i) + Len(l_lines[i].spans)

\* the union of the boxes of a non-empty span sequence
RECURSIVE UnionBox(_)
UnionBox(spans) ==
    IF Len(spans) = 1 THEN spans[1].bbox
    ELSE BBoxMerge(UnionBox(SubSeq(spans, 1, Len(spans) - 1)),
                   spans[Len(spans)].bbox)

\* the box of a line made of the given spans: the union of the boxes,
\* except that a box of zero width or zero height is replaced by the box
\* of the next span
RECURSIVE LineBoxOf(_)
LineBoxOf(spans) ==
    IF Len(spans) = 1 THEN spans[1].bbox
    ELSE LET before == LineBoxOf(SubSeq(spans, 1, Len(spans) - 1))
         IN  IF BBoxWidth(before) = 0 \/ BBoxHeight(before) = 0
             THEN spans[Len(spans)].bbox
             ELSE BBoxMerge(before, spans[Len(spans)].bbox)

\* the span at position k > 1 closes the line of the span before it
ClosesLine(k) ==
    LET i == LineOf(k - 1)
        before == SubSeq(l_spans, LineFirst(i), k - 1)
    IN  \/ l_spans[k].rotation # l_lines[i].rotation
        \/ l_spans[k].bbox.y0 > LineBoxOf(before).y1
        \/ EndsWith(l_spans[k].text, LF)
        \/ EndsWith(l_spans[k].text, STX)

\* C34: parse_text_lines partitions the spans into lines in source order,
\* every line has a span, a span after the first starts a new line exactly
\* when its rotation differs from the line's, it starts below the line's
\* bottom edge, or its text ends with a line break or STX, and a line's
\* box is the union of its spans' boxes, a zero-width or zero-height box
\* being replaced by the next span's box.
C34_LinesPartitionSpans ==
    LinesDone =>
        /\ FlattenSpans(l_lines) = l_spans
        /\ \A i \in 1..Len(l_lines) : Len(l_lines[i].spans) >= 1
        /\ \A k \in 2..Len(l_spans) :
              (\E i \in 1..Len(l_lines) : LineFirst(i) = k) <=> ClosesLine(k)
        /\ \A i \in 1..Len(l_lines) :
              /\ l_lines[i].bbox = LineBoxOf(l_lines[i].spans)
              /\ l_lines[i].rotation = l_lines[i].spans[1].rotation

\* C34 witness: two lines, the second opened by a span below the first,
\* the first with a zero-extent opening span whose box was replaced.
C34_Witness ==
    /\ LinesDone
    /\ Len(l_lines) = 2
    /\ Len(l_lines[1].spans) = 2
    /\ l_lines[1].bbox # UnionBox(l_lines[1].spans)
    /\ l_lines[2].spans[1].rotation = l_lines[1].rotation
    /\ ~EndsWith(l_lines[2].spans[1].text, LF)
    /\ ~EndsWith(l_lines[2].spans[1].text, STX)

(***************************************************************************)
(* Responses of the layout queue (specification SpecQueue).                *)
(***************************************************************************)
\* the messages sent so far on the response channel of a request: at most
\* one; a handler that has finished has sent the layout with the page_id of
\* its request or the inference error; a handler that has not finished has
\* sent nothing and can go on; a request without handler was answered, if
\* at all, with the cancellation error
OneResponse(r) ==
    LET sent == hist.sent[r]
        h == hreq[r[1]][r[2]]
    IN  /\ Len(sent) <= 1
        /\ h \in {"none", "waiting", "inferring", "done"}
        /\ h = "done" =>
              Len(sent) = 1 /\ sent[1] \in {<<"layout", r[2]>>, <<"infer_err">>}
        /\ h = "inferring" => sent = <<>> /\ ENABLED HandleFinish(r[1], r[2])
        /\ h = "waiting" => sent = <<>> /\ (permits > 0 \/ Inferring # {})
        /\ (h = "none" /\ sent # <<>>) => sent = <<<<"cancel_err">>>>

\* a request that leaves the channel is handed to a handler or answered in
\* the same step
TakenIsServed ==
    \A r \in Requests :
        (InQueue(r) /\ ~InQueue(r)') =>
            \/ hreq[r[1]][r[2]] = "none" /\ hreq'[r[1]][r[2]] = "waiting"
                  /\ hist'.sent[r] = hist.sent[r]
            \/ hreq'[r[1]][r[2]] = "none"
                  /\ hist.sent[r] = <<>> /\ hist'.sent[r] = <<<<"cancel_err">>>>

\* C35: every layout request the queue task takes from the channel gets
\* exactly one message on its response channel: the layout result with the
\* page_id of the request, or an error (inference failure or cancellation).
C35_ExactlyOneResponse ==
    [](\A r \in Requests : OneResponse(r)) /\ [][TakenIsServed]_vars

\* C35 witness: one request was answered with its layout, one with the
\* inference error and one, drained after a Flush, with the cancellation
\* error; one of the answers found its receiver gone.
C35_Witness ==
    /\ \E r \in Requests : hist.sent[r] = <<<<"layout", r[2]>>>>
    /\ \E r \in Requests : hist.sent[r] = <<<<"infer_err">>>>
    /\ \E r \in Requests : hist.sent[r] = <<<<"cancel_err">>>>
    /\ \E r \in Requests :
          hist.sent[r] # <<>> /\ task[r[1]][r[2]].pc = "aborted"
          /\ oneshot[r[1]][r[2]] = "empty"

\* C36: cancelling one of two calls that share the layout queue never
\* makes a layout request of the other call fail and never costs the other
\* call a page: a call that was not cancelled has no request answered with
\* the cancellation error, and its pages fail only when their own
\* inference failed.
C36_CancelIsolated ==
    \A d \in AllDocs :
        ~cancelled[d] =>
            \A p \in Pages :
                /\ hist.sent[<<d, p>>] # <<<<"cancel_err">>>>
                /\ task[d][p].res = "layout_err" => p \in failed[d]

(***************************************************************************)
(* The native worker and a dropped receiver (specification SpecNative).    *)
(***************************************************************************)
\* the worker handles a request whose result receiver was dropped
ReceiverGone == nw.doc \in AllDocs /\ ~native_chan[nw.doc].rx_open

\* the pages the worker has sent for the request of call d
PagesSent(d) ==
    {i \in 1..Len(hist.log) : hist.log[i][1] = "page" /\ hist.log[i][2] = d}

\* the worker's next step on a request whose receiver is gone ends the
\* request without sending a page
AbandonsRequest ==
    (ReceiverGone /\ nw' # nw) =>
        /\ nw'.doc = "none"
        /\ hist'.log = hist.log
        /\ native_chan'[nw.doc].buf = native_chan[nw.doc].buf
        /\ ~native_chan'[nw.doc].tx_open

\* C38: when the orchestrator has dropped the receiver of a request's
\* results, the native worker is never blocked on that request: its send
\* fails at once, it abandons the rest of the request, and it takes the
\* next queued request.
C38_WorkerSurvivesDroppedReceiver ==
    /\ [](ReceiverGone => ENABLED NativePage)
    /\ []((nw.doc = "none" /\ native_queue # <<>>) => ENABLED NativeRecv)
    /\ [][AbandonsRequest]_vars

\* C38 witness: the worker sent the first page of a call that returned on
\* cancellation, abandoned the rest of that request, then took the request
\* of the other call and sent a page or the count for it.
C38_Witness ==
    \E d1, d2 \in AllDocs :
        /\ d1 # d2
        /\ opc[d1] = "returned"
        /\ oresult[d1] = ErrorResult("cancelled")
        /\ Len(hist.log) = 4
        /\ hist.log[1] = <<"start", d1, -1>>
        /\ Cardinality(PagesSent(d1)) = 1
        /\ Len(PagesOfRange(config[d1].page_range)) > 1
        /\ hist.log[3] = <<"start", d2, -1>>
        /\ hist.log[4][2] = d2

(***************************************************************************)
(* Termination of parse_document (specification SpecFair).                 *)
(***************************************************************************)
\* C37: under fair scheduling every parse_document call eventually returns
\* a document or an error: the orchestrator, its page tasks, the layout
\* queue task and the native worker never wait on each other for ever.
C37_EveryCallReturns ==
    \A d \in SpecDocs :
        (opc[d] # "idle") ~>
            (opc[d] = "returned" /\ oresult[d].status \in {"doc", "err", "cancelled"})

(***************************************************************************)
(* Properties of the SSE jobs (specifications SpecJobs and SpecJobsFair).  *)
(***************************************************************************)
\* C39: every job that start_job registered is eventually removed from
\* active_jobs by complete_job, whatever path the request takes.
C39_JobEventuallyRemoved ==
    \A j \in JobIds : (j \in active_jobs) ~> (j \notin active_jobs)

\* the terminal events sent on the channel of job j
TerminalEvents(j) ==
    {i \in 1..Len(jobs[j].events) :
        jobs[j].events[i] \in {"complete", "cancelled", "error"}}

\* C40: at most one terminal event (complete, cancelled or error) is sent
\* on the event channel of a job, for every interleaving of cancel_job
\* with the parsing task.
C40_OneTerminalEvent ==
    \A j \in JobIds : Cardinality(TerminalEvents(j)) <= 1

====
